---- MODULE Spec2Model ----
(***************************************************************************)
(* A model of the OSF API swagger indexing and query engine:               *)
(*   SwaggerLoader (load, accessors, the three index builders),            *)
(*   the query resolvers searchEndpoints, searchByTag, searchSchemas,      *)
(*   fulltextSearch and listEndpoints, and the process started by main().  *)
(*                                                                         *)
(* Representation.                                                         *)
(*   - A JavaScript string is a sequence of one-character strings, so that *)
(*     toLowerCase, includes, the tokenizer's regular expressions and      *)
(*     template literals are computed character by character.              *)
(*   - A JavaScript object is a function whose DOMAIN holds exactly the    *)
(*     properties that are present; an absent (undefined) property is a    *)
(*     key that is not in the DOMAIN.                                      *)
(*   - A Map, a Set and the result of Object.entries are sequences, in     *)
(*     insertion order (the order JavaScript iterates them in).            *)
(*   - null is the value JsNull.                                           *)
(***************************************************************************)
EXTENDS Integers, Sequences, FiniteSets, TLC

\* ------------------------------------------------------------------------
\* Bounds of the model
\* ------------------------------------------------------------------------

\* The largest number of paths of a generated specification document.
MaxPaths == 2

\* The largest explicit `limit` a resolver is called with.
MaxLimit == 1

\* ------------------------------------------------------------------------
\* JavaScript values and string primitives
\* ------------------------------------------------------------------------

JsNull == [jsnull |-> TRUE]

IsNull(v) == v = JsNull

EmptyObject == [k \in {} |-> TRUE]

\* obj restricted to the keys of ks it has (building an object literal whose
\* property values may be undefined).
Pick(obj, ks) == [k \in (DOMAIN obj \cap ks) |-> obj[k]]

Has(obj, k) == k \in DOMAIN obj

\* The object with the properties of both, those of f first ({...f, ...g}
\* for objects with no property in common).
Merge(f, g) ==
    [k \in DOMAIN f \cup DOMAIN g |-> IF k \in DOMAIN f THEN f[k] ELSE g[k]]

LowerLetters ==
    <<"a","b","c","d","e","f","g","h","i","j","k","l","m",
      "n","o","p","q","r","s","t","u","v","w","x","y","z">>

UpperLetters ==
    <<"A","B","C","D","E","F","G","H","I","J","K","L","M",
      "N","O","P","Q","R","S","T","U","V","W","X","Y","Z">>

Digits == {"0","1","2","3","4","5","6","7","8","9"}

LetterCount == Len(UpperLetters)

LowerChar(c) ==
    IF \E i \in 1..LetterCount : UpperLetters[i] = c
    THEN LowerLetters[CHOOSE i \in 1..LetterCount : UpperLetters[i] = c]
    ELSE c

UpperChar(c) ==
    IF \E i \in 1..LetterCount : LowerLetters[i] = c
    THEN UpperLetters[CHOOSE i \in 1..LetterCount : LowerLetters[i] = c]
    ELSE c

\* String.prototype.toLowerCase / toUpperCase
ToLowerCase(s) == [i \in 1..Len(s) |-> LowerChar(s[i])]

ToUpperCase(s) == [i \in 1..Len(s) |-> UpperChar(s[i])]

\* String.prototype.includes
Includes(s, sub) ==
    \E i \in 0..(Len(s) - Len(sub)) : SubSeq(s, i + 1, i + Len(sub)) = sub

\* A JavaScript string used as a condition: defined and not empty.
Truthy(obj, k) == Has(obj, k) /\ obj[k] # <<>>

\* The text a template literal renders for a possibly undefined string.
TemplateString(obj, k) ==
    IF Has(obj, k) THEN obj[k] ELSE <<"u","n","d","e","f","i","n","e","d">>

\* Array.prototype.slice(start, end) on a sequence (0-based, end exclusive,
\* negative positions counted from the end).
SlicePos(n, len) ==
    IF n < 0 THEN (IF len + n < 0 THEN 0 ELSE len + n)
    ELSE (IF n > len THEN len ELSE n)

Slice(s, start, end) ==
    SubSeq(s, SlicePos(start, Len(s)) + 1, SlicePos(end, Len(s)))

\* ------------------------------------------------------------------------
\* Map and Set (insertion ordered)
\* ------------------------------------------------------------------------

MapHas(m, k) == \E i \in 1..Len(m) : m[i][1] = k

MapGet(m, k) == m[CHOOSE i \in 1..Len(m) : m[i][1] = k][2]

MapSet(m, k, v) ==
    IF MapHas(m, k)
    THEN [i \in 1..Len(m) |-> IF m[i][1] = k THEN <<k, v>> ELSE m[i]]
    ELSE Append(m, <<k, v>>)

MapKeys(m) == [i \in 1..Len(m) |-> m[i][1]]

\* map.get(k).push(v), the list being created when k is new
MapPush(m, k, v) ==
    IF MapHas(m, k) THEN MapSet(m, k, Append(MapGet(m, k), v))
    ELSE Append(m, <<k, <<v>> >>)

SetHas(s, x) == \E i \in 1..Len(s) : s[i] = x

SetAdd(s, x) == IF SetHas(s, x) THEN s ELSE Append(s, x)

\* map.get(k).add(x), the set being created when k is new
MapAdd(m, k, x) ==
    IF MapHas(m, k) THEN MapSet(m, k, SetAdd(MapGet(m, k), x))
    ELSE Append(m, <<k, <<x>> >>)

Range(s) == {s[i] : i \in 1..Len(s)}

\* ------------------------------------------------------------------------
\* Tokenizer
\* ------------------------------------------------------------------------

IsSpace(c) == c \in {" ", "\t", "\n"}

IsWordChar(c) == c \in Range(LowerLetters) \cup Digits

\* .replace(/[^a-z0-9\s]/g, ' ')
ReplaceNonWord(s) ==
    [i \in 1..Len(s) |-> IF IsWordChar(s[i]) \/ IsSpace(s[i]) THEN s[i] ELSE " "]

\* .split(/\s+/): the pieces between maximal runs of white space; the pieces
\* before a leading run and after a trailing run are empty strings.
RECURSIVE SplitFrom(_, _, _, _)
SplitFrom(s, i, cur, acc) ==
    IF i > Len(s) THEN Append(acc, cur)
    ELSE IF IsSpace(s[i])
         THEN IF i > 1 /\ IsSpace(s[i - 1])
              THEN SplitFrom(s, i + 1, cur, acc)
              ELSE SplitFrom(s, i + 1, <<>>, Append(acc, cur))
         ELSE SplitFrom(s, i + 1, Append(cur, s[i]), acc)

SplitWhitespace(s) == SplitFrom(s, 1, <<>>, <<>>)

\* The filter keeping the words of two characters.
LoaderKeepsShortWord(word) == Len(word) >= 2

\* .filter(word => word.length > 2) of SwaggerLoader.tokenize
LoaderKeepsWord(word) == Len(word) > 2

\* SwaggerLoader.tokenize
LoaderTokenize(text) ==
    SelectSeq(SplitWhitespace(ReplaceNonWord(ToLowerCase(text))), LoaderKeepsWord)

\* The filter asking for more than three characters.
QueryKeepsLongWord(word) == Len(word) > 3

\* .filter(word => word.length > 2) of the fulltext search module's tokenize
QueryKeepsWord(word) == Len(word) > 2

\* tokenize of the fulltext search module
Tokenize(text) ==
    SelectSeq(SplitWhitespace(ReplaceNonWord(ToLowerCase(text))), QueryKeepsWord)

\* ------------------------------------------------------------------------
\* Specification documents (the result of JSON.parse on a swagger file)
\* ------------------------------------------------------------------------

MethodGet == <<"g","e","t">>
MethodPost == <<"p","o","s","t">>
MethodPut == <<"p","u","t">>
MethodPatch == <<"p","a","t","c","h">>
MethodDelete == <<"d","e","l","e","t","e">>
MethodHead == <<"h","e","a","d">>
MethodOptions == <<"o","p","t","i","o","n","s">>

\* ['get', 'post', 'put', 'patch', 'delete', 'head', 'options']
HttpMethods ==
    <<MethodGet, MethodPost, MethodPut, MethodPatch, MethodDelete, MethodHead,
      MethodOptions>>

PathFil == <<"/","f","i","l">>                                 \* "/fil"
PathFilId == <<"/","f","i","l","/","{","i","d","}">>           \* "/fil/{id}"
PathNod == <<"/","n","o","d">>                                 \* "/nod"
PathFilUpper == <<"/","F","I","L">>                            \* "/FIL"
SumListFil == <<"L","i","s","t"," ","f","i","l">>              \* "List fil"
DescAllTheFil == <<"A","l","l"," ","t","h","e"," ","f","i","l">>   \* "All the fil"
SumGetFil == <<"G","e","t"," ","f","i","l">>                   \* "Get fil"
SumListNod == <<"L","i","s","t"," ","n","o","d">>              \* "List nod"
DescTheNewNod == <<"t","h","e"," ","n","e","w"," ","n","o","d">>   \* "the new nod"
SumThe == <<"t","h","e">>                                      \* "the"
OpIdListFil == <<"l","i","s","t","F","i","l">>                 \* "listFil"
OpIdGetFil == <<"g","e","t","F","i","l">>                      \* "getFil"
TagFil == <<"F","i","l">>                                      \* "Fil"
TagNod == <<"N","o","d">>                                      \* "Nod"
TagFilLower == <<"f","i","l">>                                 \* "fil"
DescFileOps == <<"F","i","l","e"," ","o","p","s">>             \* "File ops"
ParamPage == <<"p","a","g","e">>                               \* "page"
DescPageNum == <<"P","a","g","e"," ","n","u","m">>             \* "Page num"
NameFil == <<"F","i","l">>                                     \* "Fil"
NameNod == <<"N","o","d">>                                     \* "Nod"
NameFilDet == <<"F","i","l","D","e","t">>                      \* "FilDet"
PropId == <<"i","d">>                                          \* "id"
PropName == <<"n","a","m","e">>                                \* "name"
PropSize == <<"s","i","z","e">>                                \* "size"
PropDeep == <<"d","e","e","p">>                                \* "deep"
PropInner == <<"i","n","n","e","r">>                           \* "inner"
PropIdUpper == <<"I","D">>                                     \* "ID"
TypeObject == <<"o","b","j","e","c","t">>                      \* "object"
TypeArray == <<"a","r","r","a","y">>                           \* "array"
Status200 == <<"2","0","0">>
Status201 == <<"2","0","1">>
Status204 == <<"2","0","4">>
Status404 == <<"4","0","4">>
DescOk == <<"o","k">>

XResponseSchema == "x-response-schema"

\* Schemas.  `properties` and `responses` are listed in Object.entries order.
SchemaLeaf == EmptyObject

SchemaFil ==
    [title |-> NameFil, type |-> TypeObject,
     properties |-> << <<PropId, SchemaLeaf>>, <<PropName, SchemaLeaf>> >>]

\* An array of arrays: properties one level and two levels below `items`.
SchemaFilList ==
    [type |-> TypeArray,
     items |-> [type |-> TypeArray,
                properties |-> << <<PropId, SchemaLeaf>>, <<PropSize, SchemaLeaf>> >>,
                items |-> [properties |-> << <<PropDeep, SchemaLeaf>> >>]]]

\* No title; a property whose own schema has a property.
SchemaNested ==
    [properties |->
        << <<PropId, [properties |-> << <<PropInner, SchemaLeaf>> >>]>> >>]

SchemaNod == [title |-> NameNod]

SchemaUpper == [properties |-> << <<PropIdUpper, SchemaLeaf>> >>]

\* Operations
OpListFil ==
    [summary |-> SumListFil, description |-> DescAllTheFil,
     operationId |-> OpIdListFil, tags |-> <<TagFil>>,
     parameters |-> <<[name |-> ParamPage, description |-> DescPageNum]>>,
     responses |-> << <<Status200, [description |-> DescOk, schema |-> SchemaFil]>>,
                      <<Status404, [description |-> DescOk]>> >>]

OpGetFil ==
    Merge((XResponseSchema :> NameFilDet),
          [summary |-> SumGetFil, operationId |-> OpIdGetFil,
           tags |-> <<TagFil, TagNod>>,
           parameters |-> <<[name |-> PropId]>>,
           responses |-> << <<Status200, [description |-> DescOk,
                                          schema |-> SchemaFilList]>> >>])

\* Repeats the operationId of OpListFil; no summary, no tags, no schema.
OpDeleteFil ==
    [operationId |-> OpIdListFil,
     responses |-> << <<Status204, [description |-> DescOk]>> >>]

OpListNod ==
    [summary |-> SumListNod, tags |-> <<TagNod>>,
     responses |-> << <<Status200, [description |-> DescOk, schema |-> SchemaNested]>> >>]

\* Two responses with the same schema name.
OpCreateNod ==
    [description |-> DescTheNewNod,
     responses |-> << <<Status200, [description |-> DescOk, schema |-> SchemaNod]>>,
                      <<Status201, [description |-> DescOk, schema |-> SchemaNod]>> >>]

OpUpper ==
    [summary |-> SumThe, tags |-> <<TagFilLower>>,
     responses |-> << <<Status200, [description |-> DescOk, schema |-> SchemaUpper]>> >>]

\* An operation object with no property at all.
OpEmpty == EmptyObject

\* The path entries generated documents are made of: <<path, path item>>.
PathPool ==
    { <<PathFil, (MethodGet :> OpListFil)>>,
      <<PathFilId, Merge((MethodGet :> OpGetFil), (MethodDelete :> OpDeleteFil))>>,
      <<PathNod, Merge((MethodGet :> OpListNod), (MethodPost :> OpCreateNod))>>,
      <<PathFilUpper, Merge((MethodGet :> OpUpper), (MethodPut :> OpEmpty))>> }

TagDefinitions ==
    <<[name |-> TagFil, description |-> DescFileOps], [name |-> TagNod]>>

XTagGroups == "x-tagGroups"

TagGroups == <<[name |-> DescFileOps, tags |-> <<TagFil, TagFilLower>>]>>

Document(paths) ==
    Merge((XTagGroups :> TagGroups), [tags |-> TagDefinitions, paths |-> paths])

\* Sequences of at most MaxPaths entries of PathPool, no path twice (the keys
\* of a JSON object are distinct), in every order.
PathLists ==
    UNION { { s \in [1..n -> PathPool] : \A i, j \in 1..n : i # j => s[i] # s[j] }
            : n \in 0..MaxPaths }

WellFormedDocuments == { Document(ps) : ps \in PathLists }

\* A document that declares no `tags` array (the builders do not read it).
DocumentNoTagDefinitions == [paths |-> << <<PathFil, (MethodGet :> OpListFil)>> >>]

\* Documents that are valid JSON but not what the builders expect.
DocumentNoPaths == [tags |-> TagDefinitions]

DocumentNullResponse ==
    Document(<< <<PathFil, (MethodGet :>
        [summary |-> SumListFil, tags |-> <<TagFil>>,
         responses |-> << <<Status200, JsNull>> >>])>> >>)

DocumentNullParameter ==
    Document(<< <<PathFil, (MethodGet :>
        [summary |-> SumListFil, tags |-> <<TagFil>>,
         parameters |-> <<JsNull>>,
         responses |-> << <<Status200, [description |-> DescOk, schema |-> SchemaFil]>> >>])>> >>)

MalformedDocuments ==
    {DocumentNoPaths, DocumentNullResponse, DocumentNullParameter}

NameUndefined == <<"u","n","d","e","f","i","n","e","d">>       \* "undefined"

\* One operation with a response schema that has no title and a response
\* schema whose title is the word "undefined".
DocumentUndefinedTitle ==
    Document(<< <<PathFil, (MethodGet :>
        [summary |-> SumListFil, tags |-> <<TagFil>>,
         responses |->
             << <<Status200, [description |-> DescOk,
                              schema |-> [properties |-> << <<PropId, SchemaLeaf>> >>]]>>,
                <<Status404, [description |-> DescOk,
                              schema |-> [title |-> NameUndefined,
                                          properties |-> << <<PropId, SchemaLeaf>> >>]]>>
             >>])>> >>)

\* What readFile and JSON.parse can make of the file load() is given.
Files ==
    {[kind |-> "unreadable"], [kind |-> "invalid-json"], [kind |-> "json", value |-> JsNull]}
    \cup { [kind |-> "json", value |-> d] :
             d \in WellFormedDocuments \cup {DocumentNoTagDefinitions}
                   \cup MalformedDocuments \cup {DocumentUndefinedTitle} }

\* ------------------------------------------------------------------------
\* SwaggerLoader: the index builders
\* ------------------------------------------------------------------------

RECURSIVE Flatten(_)
Flatten(ss) == IF ss = <<>> THEN <<>> ELSE Head(ss) \o Flatten(Tail(ss))

\* Array.prototype.join(' '); an undefined element renders as the empty string
RECURSIVE Join(_)
Join(parts) ==
    IF parts = <<>> THEN <<>>
    ELSE IF Len(parts) = 1 THEN parts[1]
    ELSE parts[1] \o <<" ">> \o Join(Tail(parts))

\* The methods of one path item that carry an operation, in the fixed order
\* the builders try them in.
PresentMethods(pathItem) ==
    SelectSeq(HttpMethods, LAMBDA m : m \in DOMAIN pathItem)

\* The double loop shared by the three builders: every operation of the
\* document with its path and (lower-case) method, in traversal order.
PathOperations(entry) ==
    LET ms == PresentMethods(entry[2])
    IN  [i \in 1..Len(ms) |->
            [path |-> entry[1], method |-> ms[i], operation |-> entry[2][ms[i]]]]

Operations(doc) ==
    Flatten([i \in 1..Len(doc.paths) |-> PathOperations(doc.paths[i])])

\* The lightweight endpoint record pushed into `tags` and returned by
\* searchEndpoints.
EndpointResultOf(path, method, operation) ==
    Merge([path |-> path, method |-> method],
          Pick(operation, {"summary", "description", "operationId", "tags", "parameters"}))

\* paths.set(path, methodMap) for every path with at least one operation
MethodMapOf(pathItem) ==
    LET ms == PresentMethods(pathItem)
    IN  [i \in 1..Len(ms) |-> <<ToUpperCase(ms[i]), pathItem[ms[i]]>>]

BuildPaths(doc) ==
    LET kept == SelectSeq(doc.paths, LAMBDA e : Len(PresentMethods(e[2])) > 0)
    IN  [i \in 1..Len(kept) |-> <<kept[i][1], MethodMapOf(kept[i][2])>>]

\* for (const tag of operation.tags) tags.get(tag).push({...})
RECURSIVE PushTags(_, _, _, _)
PushTags(tags, names, j, record) ==
    IF j > Len(names) THEN tags
    ELSE PushTags(MapPush(tags, names[j], record), names, j + 1, record)

RECURSIVE BuildTags(_, _, _)
BuildTags(ops, i, tags) ==
    IF i > Len(ops) THEN tags
    ELSE LET o == ops[i]
             record == EndpointResultOf(o.path, ToUpperCase(o.method), o.operation)
         IN  BuildTags(ops, i + 1,
                 IF Has(o.operation, "tags")
                 THEN PushTags(tags, o.operation.tags, 1, record)
                 ELSE tags)

\* The map keeping the first operation of an operationId.
RECURSIVE BuildOperationIdsFirstWins(_, _, _)
BuildOperationIdsFirstWins(ops, i, ids) ==
    IF i > Len(ops) THEN ids
    ELSE LET o == ops[i]
         IN  BuildOperationIdsFirstWins(ops, i + 1,
                 IF Truthy(o.operation, "operationId")
                    /\ ~MapHas(ids, o.operation.operationId)
                 THEN MapSet(ids, o.operation.operationId,
                             [path |-> o.path, method |-> ToUpperCase(o.method)])
                 ELSE ids)

\* operationIds.set(operation.operationId, {path, method}): the last one wins
RECURSIVE BuildOperationIds(_, _, _)
BuildOperationIds(ops, i, ids) ==
    IF i > Len(ops) THEN ids
    ELSE LET o == ops[i]
         IN  BuildOperationIds(ops, i + 1,
                 IF Truthy(o.operation, "operationId")
                 THEN MapSet(ids, o.operation.operationId,
                             [path |-> o.path, method |-> ToUpperCase(o.method)])
                 ELSE ids)

\* Object.entries(this.spec.paths) throws a TypeError when `paths` is missing.
BuildEndpointIndexThrows(doc) == ~Has(doc, "paths")

BuildEndpointIndex(doc) ==
    [paths |-> BuildPaths(doc),
     tags |-> BuildTags(Operations(doc), 1, <<>>),
     operationIds |-> BuildOperationIds(Operations(doc), 1, <<>>)]

\* operation['x-response-schema'] || response.schema.title, as the object
\* {schemaName} (empty when the name is undefined)
SchemaNameOf(operation, schema) ==
    IF Truthy(operation, XResponseSchema)
    THEN [schemaName |-> operation[XResponseSchema]]
    ELSE IF Has(schema, "title") THEN [schemaName |-> schema.title]
    ELSE EmptyObject

SchemaResultOf(path, method, operation, schema) ==
    Merge(SchemaNameOf(operation, schema),
          [path |-> path, method |-> method, schema |-> schema])

\* The occurrences of one operation: one per response that carries a schema,
\* in Object.entries order.
OperationOccurrences(o) ==
    IF ~Has(o.operation, "responses") THEN <<>>
    ELSE LET withSchema ==
                 SelectSeq(o.operation.responses, LAMBDA r : Has(r[2], "schema"))
         IN  [k \in 1..Len(withSchema) |->
                 SchemaResultOf(o.path, ToUpperCase(o.method), o.operation,
                                withSchema[k][2].schema)]

Occurrences(doc) ==
    LET ops == Operations(doc)
    IN  Flatten([i \in 1..Len(ops) |-> OperationOccurrences(ops[i])])

RECURSIVE BuildByName(_, _, _)
BuildByName(occs, i, byName) ==
    IF i > Len(occs) THEN byName
    ELSE BuildByName(occs, i + 1,
             IF Truthy(occs[i], "schemaName")
             THEN MapPush(byName, occs[i].schemaName, occs[i])
             ELSE byName)

RECURSIVE PushProperties(_, _, _, _)
PushProperties(byProperty, props, j, schemaResult) ==
    IF j > Len(props) THEN byProperty
    ELSE PushProperties(MapPush(byProperty, props[j][1], schemaResult),
                        props, j + 1, schemaResult)

\* The descent stopped after the items of the response schema.
IndexSchemaPropertiesOneLevel(schema, schemaResult, byProperty) ==
    LET own == IF Has(schema, "properties")
               THEN PushProperties(byProperty, schema.properties, 1, schemaResult)
               ELSE byProperty
    IN  IF Has(schema, "items") /\ Has(schema.items, "properties")
        THEN PushProperties(own, schema.items.properties, 1, schemaResult)
        ELSE own

\* SwaggerLoader.indexSchemaProperties
RECURSIVE IndexSchemaProperties(_, _, _)
IndexSchemaProperties(schema, schemaResult, byProperty) ==
    LET own == IF Has(schema, "properties")
               THEN PushProperties(byProperty, schema.properties, 1, schemaResult)
               ELSE byProperty
    IN  IF Has(schema, "items")
        THEN IndexSchemaProperties(schema.items, schemaResult, own)
        ELSE own

RECURSIVE BuildByProperty(_, _, _)
BuildByProperty(occs, i, byProperty) ==
    IF i > Len(occs) THEN byProperty
    ELSE BuildByProperty(occs, i + 1,
             IndexSchemaProperties(occs[i].schema, occs[i], byProperty))

\* response.schema throws a TypeError when a response is null.
BuildSchemaIndexThrows(doc) ==
    \E i \in 1..Len(Operations(doc)) :
        LET op == Operations(doc)[i].operation
        IN  /\ Has(op, "responses")
            /\ \E k \in 1..Len(op.responses) : IsNull(op.responses[k][2])

BuildSchemaIndex(doc) ==
    [byName |-> BuildByName(Occurrences(doc), 1, <<>>),
     byProperty |-> BuildByProperty(Occurrences(doc), 1, <<>>)]

\* `${method.toUpperCase()}:${path}`
DocId(method, path) == ToUpperCase(method) \o <<":">> \o path

ParameterParts(param) ==
    (IF Truthy(param, "description") THEN <<param.description>> ELSE <<>>)
    \o <<IF Has(param, "name") THEN param.name ELSE <<>> >>

ContentParts(operation) ==
    (IF Truthy(operation, "summary") THEN <<operation.summary>> ELSE <<>>)
    \o (IF Truthy(operation, "description") THEN <<operation.description>> ELSE <<>>)
    \o (IF Has(operation, "parameters")
        THEN Flatten([k \in 1..Len(operation.parameters) |->
                         ParameterParts(operation.parameters[k])])
        ELSE <<>>)

DocumentOf(o) ==
    Merge([path |-> o.path, method |-> ToUpperCase(o.method),
           content |-> Join(ContentParts(o.operation))],
          Pick(o.operation, {"summary", "description"}))

BuildDocuments(ops) ==
    [i \in 1..Len(ops) |-> <<DocId(ops[i].method, ops[i].path), DocumentOf(ops[i])>>]

RECURSIVE AddTokens(_, _, _, _)
AddTokens(words, tokens, j, docId) ==
    IF j > Len(tokens) THEN words
    ELSE AddTokens(MapAdd(words, tokens[j], docId), tokens, j + 1, docId)

\* The words indexed under the method as the document spells it.
RECURSIVE BuildWordsMethodAsSpelled(_, _, _)
BuildWordsMethodAsSpelled(ops, i, words) ==
    IF i > Len(ops) THEN words
    ELSE BuildWordsMethodAsSpelled(ops, i + 1,
             AddTokens(words, LoaderTokenize(Join(ContentParts(ops[i].operation))),
                       1, ops[i].method \o <<":">> \o ops[i].path))

RECURSIVE BuildWords(_, _, _)
BuildWords(ops, i, words) ==
    IF i > Len(ops) THEN words
    ELSE BuildWords(ops, i + 1,
             AddTokens(words, LoaderTokenize(Join(ContentParts(ops[i].operation))),
                       1, DocId(ops[i].method, ops[i].path)))

\* param.description throws a TypeError when a parameter is null.
BuildFulltextIndexThrows(doc) ==
    \E i \in 1..Len(Operations(doc)) :
        LET op == Operations(doc)[i].operation
        IN  /\ Has(op, "parameters")
            /\ \E k \in 1..Len(op.parameters) : IsNull(op.parameters[k])

BuildFulltextIndex(doc) ==
    [words |-> BuildWords(Operations(doc), 1, <<>>),
     documents |-> BuildDocuments(Operations(doc))]

\* ------------------------------------------------------------------------
\* SwaggerLoader: state and accessors
\* ------------------------------------------------------------------------

VARIABLES
    spec,            \* SwaggerLoader.spec
    endpointIndex,   \* SwaggerLoader.endpointIndex
    schemaIndex,     \* SwaggerLoader.schemaIndex
    fulltextIndex,   \* SwaggerLoader.fulltextIndex
    loadState,       \* the promise of load(): "none", "pending", "resolved", "rejected"
    loadError,       \* why load() rejected ("" when it did not)
    loadsInFlight,   \* the load() calls waiting at `await readFile(...)`
    call,            \* the resolver call in progress ([fn |-> "none"]: none)
    result,          \* what that call returned or threw
    mainPc,          \* where main() is: "library" when the process is not main()'s
    transportStarted,\* server.connect(transport) was called: requests arrive
    exitCode,        \* the code of process.exit, -1 while the process runs
    request,         \* the tool call request being answered
    response,        \* the answer of the request handler
    ixPc,            \* indexSchemaProperties: "idle", "properties", "items", "done"
    ixSchema,        \* its `schema` argument in the innermost call
    ixSchemaResult,  \* its `schemaResult` argument
    ixByProperty,    \* its `byProperty` argument, the map being filled
    ixDepth          \* the number of its calls on the stack

loaderVars == <<spec, endpointIndex, schemaIndex, fulltextIndex>>

callVars == <<call, result>>

mainVars == <<mainPc, transportStarted, exitCode, request, response>>

ixVars == <<ixPc, ixSchema, ixSchemaResult, ixByProperty, ixDepth>>

vars == <<spec, endpointIndex, schemaIndex, fulltextIndex, loadState, loadError,
          loadsInFlight, call, result, mainPc, transportStarted, exitCode, request, response,
          ixPc, ixSchema, ixSchemaResult, ixByProperty, ixDepth>>

\* No call of indexSchemaProperties is being followed.
IxIdle ==
    /\ ixPc = "idle"
    /\ ixSchema = JsNull
    /\ ixSchemaResult = JsNull
    /\ ixByProperty = <<>>
    /\ ixDepth = 0

\* The loader object, as the resolvers receive it.
Loader ==
    [spec |-> spec, endpointIndex |-> endpointIndex, schemaIndex |-> schemaIndex,
     fulltextIndex |-> fulltextIndex]

\* new Error(text)
Error(text) == [text |-> text]

Threw(message) == [threw |-> TRUE, error |-> Error(message)]

Returned(value) == [threw |-> FALSE, value |-> value]

SpecNotLoaded == "Swagger spec not loaded. Call load() first."

IndexesNotBuilt == "Indexes not built. Call load() first."

GetSpec(loader) ==
    IF IsNull(loader.spec) THEN Threw(SpecNotLoaded) ELSE Returned(loader.spec)

\* The accessor without its check: null comes back.
GetEndpointIndexUnchecked(loader) == Returned(loader.endpointIndex)

GetEndpointIndex(loader) ==
    IF IsNull(loader.endpointIndex) THEN Threw(IndexesNotBuilt)
    ELSE Returned(loader.endpointIndex)

GetSchemaIndex(loader) ==
    IF IsNull(loader.schemaIndex) THEN Threw(IndexesNotBuilt)
    ELSE Returned(loader.schemaIndex)

GetFulltextIndex(loader) ==
    IF IsNull(loader.fulltextIndex) THEN Threw(IndexesNotBuilt)
    ELSE Returned(loader.fulltextIndex)

\* ------------------------------------------------------------------------
\* searchEndpoints
\* ------------------------------------------------------------------------

DefaultSearchLimit == 10

\* Every (path, method, operation) of index.paths, in Map iteration order.
IndexedOperations(index) ==
    Flatten([i \in 1..Len(index.paths) |->
                [j \in 1..Len(index.paths[i][2]) |->
                    [path |-> index.paths[i][1],
                     method |-> index.paths[i][2][j][1],
                     operation |-> index.paths[i][2][j][2]]]])

\* index.paths.get(path)?.get(method): a sequence holding the operation, or
\* the empty sequence for undefined
LookupOperation(index, path, method) ==
    IF MapHas(index.paths, path) /\ MapHas(MapGet(index.paths, path), method)
    THEN <<MapGet(MapGet(index.paths, path), method)>>
    ELSE <<>>

OperationIdMatches(entry, operationId) ==
    Includes(ToLowerCase(entry[1]), ToLowerCase(operationId))

EndpointsByOperationId(index, operationId) ==
    LET hits == SelectSeq(index.operationIds,
                    LAMBDA e : /\ OperationIdMatches(e, operationId)
                               /\ LookupOperation(index, e[2].path, e[2].method) # <<>>)
    IN  [i \in 1..Len(hits) |->
            EndpointResultOf(hits[i][2].path, hits[i][2].method,
                LookupOperation(index, hits[i][2].path, hits[i][2].method)[1])]

PathFilterPasses(o, params) ==
    ~Truthy(params, "path")
    \/ Includes(ToLowerCase(o.path), ToLowerCase(params.path))

\* The method compared as it is given.
MethodFilterPassesExact(o, params) ==
    ~Truthy(params, "method") \/ o.method = params.method

MethodFilterPasses(o, params) ==
    ~Truthy(params, "method")
    \/ ToUpperCase(o.method) = ToUpperCase(params.method)

\* The tag filter looking at the first tag of the operation only.
TagFilterPassesFirstTag(o, params) ==
    ~Truthy(params, "tag")
    \/ /\ Has(o.operation, "tags")
       /\ o.operation.tags # <<>>
       /\ Includes(ToLowerCase(o.operation.tags[1]), ToLowerCase(params.tag))

TagFilterPasses(o, params) ==
    ~Truthy(params, "tag")
    \/ /\ Has(o.operation, "tags")
       /\ \E k \in 1..Len(o.operation.tags) :
              Includes(ToLowerCase(o.operation.tags[k]), ToLowerCase(params.tag))

EndpointsByFilters(index, params) ==
    LET hits == SelectSeq(IndexedOperations(index),
                    LAMBDA o : /\ PathFilterPasses(o, params)
                               /\ MethodFilterPasses(o, params)
                               /\ TagFilterPasses(o, params))
    IN  [i \in 1..Len(hits) |->
            EndpointResultOf(hits[i].path, hits[i].method, hits[i].operation)]

\* searchEndpoints looking at operationId only when no other filter is given.
SearchEndpointsFiltersFirst(loader, params) ==
    LET limit == IF Has(params, "limit") THEN params.limit ELSE DefaultSearchLimit
        got == GetEndpointIndex(loader)
        filtered == Truthy(params, "path") \/ Truthy(params, "method")
                    \/ Truthy(params, "tag")
    IN  IF got.threw THEN got
        ELSE Returned(Slice(
                 IF Truthy(params, "operationId") /\ ~filtered
                 THEN EndpointsByOperationId(got.value, params.operationId)
                 ELSE EndpointsByFilters(got.value, params),
                 0, limit))

SearchEndpoints(loader, params) ==
    LET limit == IF Has(params, "limit") THEN params.limit ELSE DefaultSearchLimit
        got == GetEndpointIndex(loader)
    IN  IF got.threw THEN got
        ELSE Returned(Slice(
                 IF Truthy(params, "operationId")
                 THEN EndpointsByOperationId(got.value, params.operationId)
                 ELSE EndpointsByFilters(got.value, params),
                 0, limit))

\* ------------------------------------------------------------------------
\* searchByTag
\* ------------------------------------------------------------------------

TypeErrorThrown == "TypeError"

\* spec.tags.find(t => t.name === tagName)?.description, as the object
\* {description} (empty when it is undefined)
TagDescription(doc, tagName) ==
    LET found == SelectSeq(doc.tags, LAMBDA t : Has(t, "name") /\ t.name = tagName)
    IN  IF found = <<>> THEN EmptyObject ELSE Pick(found[1], {"description"})

\* The tag name compared without lower-casing it.
TagMatchesExactCase(entry, tag) == Includes(entry[1], ToLowerCase(tag))

TagMatches(entry, tag) == Includes(ToLowerCase(entry[1]), ToLowerCase(tag))

SearchByTag(loader, params) ==
    LET includeDescription ==
            IF Has(params, "includeDescription") THEN params.includeDescription
            ELSE FALSE
        gotSpec == GetSpec(loader)
        got == GetEndpointIndex(loader)
    IN  IF gotSpec.threw THEN gotSpec
        ELSE IF got.threw THEN got
        ELSE LET hits == SelectSeq(got.value.tags,
                             LAMBDA e : TagMatches(e, params.tag))
             IN  IF includeDescription /\ hits # <<>> /\ ~Has(gotSpec.value, "tags")
                 THEN Threw(TypeErrorThrown)
                 ELSE Returned([i \in 1..Len(hits) |->
                          Merge([tagName |-> hits[i][1], endpoints |-> hits[i][2]],
                                IF includeDescription
                                THEN TagDescription(gotSpec.value, hits[i][1])
                                ELSE EmptyObject)])

\* ------------------------------------------------------------------------
\* searchSchemas
\* ------------------------------------------------------------------------

\* results.push(...schemas) for every entry of the map whose key contains the
\* needle, case-insensitively
MatchingOccurrences(map, needle) ==
    LET hits == SelectSeq(map,
                    LAMBDA e : Includes(ToLowerCase(e[1]), ToLowerCase(needle)))
    IN  Flatten([i \in 1..Len(hits) |-> hits[i][2]])

\* The occurrences named by the title of the schema alone.
EndpointOccurrencesByTitle(index, path, method) ==
    LET found == LookupOperation(index, path, ToUpperCase(method))
    IN  IF found = <<>> \/ ~Has(found[1], "responses") THEN <<>>
        ELSE LET withSchema ==
                     SelectSeq(found[1].responses, LAMBDA r : Has(r[2], "schema"))
             IN  [k \in 1..Len(withSchema) |->
                     SchemaResultOf(path, ToUpperCase(method), EmptyObject,
                                    withSchema[k][2].schema)]

\* The occurrences synthesized for one endpoint: the operation is looked up
\* by the path as given and the upper-cased method.
EndpointOccurrences(index, path, method) ==
    LET found == LookupOperation(index, path, ToUpperCase(method))
    IN  IF found = <<>> \/ ~Has(found[1], "responses") THEN <<>>
        ELSE LET withSchema ==
                     SelectSeq(found[1].responses, LAMBDA r : Has(r[2], "schema"))
             IN  [k \in 1..Len(withSchema) |->
                     SchemaResultOf(path, ToUpperCase(method), found[1],
                                    withSchema[k][2].schema)]

\* `${result.path}:${result.method}:${result.schemaName}`
DedupKey(r) ==
    TemplateString(r, "path") \o <<":">> \o TemplateString(r, "method")
    \o <<":">> \o TemplateString(r, "schemaName")

\* The first result of every key, in the order the keys first appear.
RECURSIVE RemoveDuplicates(_, _, _)
RemoveDuplicates(results, i, unique) ==
    IF i > Len(results) THEN [k \in 1..Len(unique) |-> unique[k][2]]
    ELSE RemoveDuplicates(results, i + 1,
             IF MapHas(unique, DedupKey(results[i])) THEN unique
             ELSE Append(unique, <<DedupKey(results[i]), results[i]>>))

\* The criteria in another order: property before schemaName.
SchemaCriterionPropertyFirst(params) ==
    IF Truthy(params, "property") THEN "property"
    ELSE IF Truthy(params, "schemaName") THEN "schemaName"
    ELSE IF Truthy(params, "path") /\ Truthy(params, "method") THEN "endpoint"
    ELSE "none"

\* The criterion searchSchemas answers by: the first that is given.
SchemaCriterion(params) ==
    IF Truthy(params, "schemaName") THEN "schemaName"
    ELSE IF Truthy(params, "property") THEN "property"
    ELSE IF Truthy(params, "path") /\ Truthy(params, "method") THEN "endpoint"
    ELSE "none"

SearchSchemas(loader, params) ==
    LET got == GetSchemaIndex(loader)
        criterion == SchemaCriterion(params)
    IN  IF got.threw THEN got
        ELSE IF criterion = "schemaName"
        THEN Returned(RemoveDuplicates(
                 MatchingOccurrences(got.value.byName, params.schemaName), 1, <<>>))
        ELSE IF criterion = "property"
        THEN Returned(RemoveDuplicates(
                 MatchingOccurrences(got.value.byProperty, params.property), 1, <<>>))
        ELSE IF criterion = "endpoint"
        THEN LET gotPaths == GetEndpointIndex(loader)
             IN  IF gotPaths.threw THEN gotPaths
                 ELSE Returned(RemoveDuplicates(
                          EndpointOccurrences(gotPaths.value, params.path, params.method),
                          1, <<>>))
        ELSE Returned(<<>>)

\* ------------------------------------------------------------------------
\* fulltextSearch
\* ------------------------------------------------------------------------

\* A score is a sum of terms tf * idf with tf = 1 / queryTokens.length and
\* idf = Math.log(documents.size / docIds.size).  The sum of the logarithms is
\* the logarithm of the product, so the score is kept exactly as
\*     ln(num / den) / tokens,   num = the product of the documents.size,
\*                               den = the product of the docIds.size
\* of the terms added.  A term with docIds.size = 0 makes den 0: the division
\* and then the score are Infinity (NaN when documents.size is 0 too).
ZeroScore(tokens) == [tokens |-> tokens, num |-> 1, den |-> 1]

\* The logarithm taken of the documents that do not hold the token.
IdfOfOthers(documentCount, df) == <<documentCount, documentCount - df>>

\* Math.log(documents.size / docIds.size), as the pair <<numerator, denominator>>
Idf(documentCount, df) == <<documentCount, df>>

\* scoreData.score += tf * idf
AddTerm(score, idf) ==
    [tokens |-> score.tokens, num |-> score.num * idf[1], den |-> score.den * idf[2]]

\* Number.isFinite(score)
IsFiniteScore(score) == score.den # 0 /\ score.num # 0

\* a.score > b.score, for finite scores of one query
ScoreGreater(a, b) == a.num * b.den > b.num * a.den

ScorePositive(score) == IsFiniteScore(score) /\ score.num > score.den

\* The fields among summary and description whose lower-cased text contains
\* the token.
FieldsMatching(doc, token) ==
    (IF Has(doc, "summary") /\ Includes(ToLowerCase(doc.summary), token)
     THEN <<"summary">> ELSE <<>>)
    \o (IF Has(doc, "description") /\ Includes(ToLowerCase(doc.description), token)
        THEN <<"description">> ELSE <<>>)

RECURSIVE AddAll(_, _, _)
AddAll(set, xs, j) ==
    IF j > Len(xs) THEN set ELSE AddAll(SetAdd(set, xs[j]), xs, j + 1)

\* The inner loop: one query token's contribution to every document of docIds.
RECURSIVE ScoreDocuments(_, _, _, _, _, _)
ScoreDocuments(scores, index, docIds, j, token, tokens) ==
    IF j > Len(docIds) THEN scores
    ELSE LET docId == docIds[j]
             old == IF MapHas(scores, docId) THEN MapGet(scores, docId)
                    ELSE [score |-> ZeroScore(tokens), matchedFields |-> <<>>]
             new == [score |-> AddTerm(old.score,
                                       Idf(Len(index.documents), Len(docIds))),
                     matchedFields |->
                         AddAll(old.matchedFields,
                                FieldsMatching(MapGet(index.documents, docId), token), 1)]
         IN  ScoreDocuments(MapSet(scores, docId, new), index, docIds, j + 1,
                            token, tokens)

\* The documents of the first indexed word that contains the token.
DocIdsOfContaining(index, token) ==
    LET hits == SelectSeq(index.words, LAMBDA e : Includes(e[1], token))
    IN  IF hits = <<>> THEN <<>> ELSE hits[1][2]

\* index.words.get(token), the loop being skipped when it is undefined
DocIdsOf(index, token) ==
    IF MapHas(index.words, token) THEN MapGet(index.words, token) ELSE <<>>

\* The outer loop over the query tokens.
RECURSIVE ScoreTokens(_, _, _, _)
ScoreTokens(scores, index, queryTokens, i) ==
    IF i > Len(queryTokens) THEN scores
    ELSE ScoreTokens(
             ScoreDocuments(scores, index, DocIdsOf(index, queryTokens[i]), 1,
                            queryTokens[i], Len(queryTokens)),
             index, queryTokens, i + 1)

FulltextResultOf(index, entry) ==
    Merge([path |-> MapGet(index.documents, entry[1]).path,
           method |-> MapGet(index.documents, entry[1]).method,
           score |-> entry[2].score,
           matchedFields |-> entry[2].matchedFields],
          Pick(MapGet(index.documents, entry[1]), {"summary", "description"}))

\* The comparator the other way round (a.score - b.score).
ComesBeforeAscending(a, b) == ScoreGreater(b.score, a.score)

\* results.sort((a, b) => b.score - a.score): a stable sort; x goes after
\* every element it is not to precede.
ComesBefore(a, b) == ScoreGreater(a.score, b.score)

RECURSIVE InsertByScore(_, _)
InsertByScore(sorted, x) ==
    IF sorted = <<>> THEN <<x>>
    ELSE IF ComesBefore(x, Head(sorted)) THEN <<x>> \o sorted
    ELSE <<Head(sorted)>> \o InsertByScore(Tail(sorted), x)

RECURSIVE SortByScore(_, _, _)
SortByScore(results, i, sorted) ==
    IF i > Len(results) THEN sorted
    ELSE SortByScore(results, i + 1, InsertByScore(sorted, results[i]))

\* Every scored document as a result, sorted, before the truncation.
RankedResults(index, queryTokens) ==
    LET scores == ScoreTokens(<<>>, index, queryTokens, 1)
    IN  SortByScore([i \in 1..Len(scores) |-> FulltextResultOf(index, scores[i])],
                    1, <<>>)

\* fulltextSearch refusing an empty query, as the server's handler does.
FulltextSearchRequiringQuery(loader, params) ==
    LET limit == IF Has(params, "limit") THEN params.limit ELSE DefaultSearchLimit
        got == GetFulltextIndex(loader)
        queryTokens == Tokenize(params.query)
    IN  IF got.threw THEN got
        ELSE IF Len(queryTokens) = 0 THEN Threw("query parameter is required")
        ELSE Returned(Slice(RankedResults(got.value, queryTokens), 0, limit))

FulltextSearch(loader, params) ==
    LET limit == IF Has(params, "limit") THEN params.limit ELSE DefaultSearchLimit
        got == GetFulltextIndex(loader)
        queryTokens == Tokenize(params.query)
    IN  IF got.threw THEN got
        ELSE IF Len(queryTokens) = 0 THEN Returned(<<>>)
        ELSE Returned(Slice(RankedResults(got.value, queryTokens), 0, limit))

\* ------------------------------------------------------------------------
\* listEndpoints
\* ------------------------------------------------------------------------

DefaultListLimit == 50

DefaultListOffset == 0

\* String.prototype.localeCompare in the default (root) collation, for the
\* characters of the model: strings are compared first by their letters
\* regardless of case, white space before punctuation before digits before
\* letters, a shorter string before its extensions; strings that differ only
\* in case are ordered by the first such difference, lower case first.
CollationOrder ==
    <<"\t", "\n", " ", "_", "-", ",", ";", ":", "!", "?", ".", "'", "(", ")", "[",
      "]", "{", "}", "@", "*", "/", "&", "#", "%", "0", "1", "2", "3", "4", "5",
      "6", "7", "8", "9">> \o LowerLetters

PrimaryRank(c) ==
    IF \E i \in 1..Len(CollationOrder) : CollationOrder[i] = LowerChar(c)
    THEN CHOOSE i \in 1..Len(CollationOrder) : CollationOrder[i] = LowerChar(c)
    ELSE 0

\* -1, 0 or 1 from the first position at which the ranks differ
RECURSIVE CompareRanks(_, _, _)
CompareRanks(a, b, i) ==
    IF i > Len(a) /\ i > Len(b) THEN 0
    ELSE IF i > Len(a) THEN -1
    ELSE IF i > Len(b) THEN 1
    ELSE IF a[i] < b[i] THEN -1
    ELSE IF a[i] > b[i] THEN 1
    ELSE CompareRanks(a, b, i + 1)

CaseRank(c) == IF LowerChar(c) = c THEN 0 ELSE 1

LocaleCompare(a, b) ==
    LET primary == CompareRanks([i \in 1..Len(a) |-> PrimaryRank(a[i])],
                                [i \in 1..Len(b) |-> PrimaryRank(b[i])], 1)
    IN  IF primary # 0 THEN primary
        ELSE CompareRanks([i \in 1..Len(a) |-> CaseRank(a[i])],
                          [i \in 1..Len(b) |-> CaseRank(b[i])], 1)

\* a.path.localeCompare(b.path) || a.method.localeCompare(b.method)
CompareListItems(a, b) ==
    IF LocaleCompare(a.path, b.path) # 0 THEN LocaleCompare(a.path, b.path)
    ELSE LocaleCompare(a.method, b.method)

RECURSIVE InsertListItem(_, _)
InsertListItem(sorted, x) ==
    IF sorted = <<>> THEN <<x>>
    ELSE IF CompareListItems(x, Head(sorted)) < 0 THEN <<x>> \o sorted
    ELSE <<Head(sorted)>> \o InsertListItem(Tail(sorted), x)

RECURSIVE SortListItems(_, _, _)
SortListItems(items, i, sorted) ==
    IF i > Len(items) THEN sorted
    ELSE SortListItems(items, i + 1, InsertListItem(sorted, items[i]))

EndpointListItemOf(o) ==
    Merge([path |-> o.path, method |-> ToUpperCase(o.method)],
          Pick(o.operation, {"summary", "operationId", "tags"}))

ListEndpoints(loader, params) ==
    LET got == GetEndpointIndex(loader)
        limit == IF Has(params, "limit") THEN params.limit ELSE DefaultListLimit
        offset == IF Has(params, "offset") THEN params.offset ELSE DefaultListOffset
    IN  IF got.threw THEN got
        ELSE LET ops == IndexedOperations(got.value)
                 items == [i \in 1..Len(ops) |-> EndpointListItemOf(ops[i])]
             IN  Returned(Slice(SortListItems(items, 1, <<>>), offset, offset + limit))

\* ------------------------------------------------------------------------
\* SwaggerLoader.load
\* ------------------------------------------------------------------------

SpecMissing == "Spec not loaded"

\* SwaggerLoader.buildIndexes on a loader whose spec was just assigned: the
\* three assignments in turn, the first builder that throws ending it.
BuildIndexes(loader) ==
    IF IsNull(loader.spec)
    THEN [loader |-> loader, threw |-> TRUE, error |-> SpecMissing]
    ELSE IF BuildEndpointIndexThrows(loader.spec)
    THEN [loader |-> loader, threw |-> TRUE, error |-> TypeErrorThrown]
    ELSE LET one == [loader EXCEPT !.endpointIndex = BuildEndpointIndex(loader.spec)]
         IN  IF BuildSchemaIndexThrows(loader.spec)
             THEN [loader |-> one, threw |-> TRUE, error |-> TypeErrorThrown]
             ELSE LET two == [one EXCEPT !.schemaIndex = BuildSchemaIndex(loader.spec)]
                  IN  IF BuildFulltextIndexThrows(loader.spec)
                      THEN [loader |-> two, threw |-> TRUE, error |-> TypeErrorThrown]
                      ELSE [loader |-> [two EXCEPT !.fulltextIndex =
                                            BuildFulltextIndex(loader.spec)],
                            threw |-> FALSE, error |-> ""]

\* What load() does once readFile has settled with `file`: readFile rejects,
\* or JSON.parse throws, or the parsed value is assigned and indexed.
LoadOutcome(loader, file) ==
    IF file.kind = "unreadable"
    THEN [loader |-> loader, threw |-> TRUE, error |-> "ENOENT"]
    ELSE IF file.kind = "invalid-json"
    THEN [loader |-> loader, threw |-> TRUE, error |-> "SyntaxError"]
    ELSE BuildIndexes([loader EXCEPT !.spec = file.value])

\* load() is called: it runs up to `await readFile(...)`.  (JavaScript runs
\* to completion: no resolver call is in progress when other code runs.)
LoadCalled ==
    /\ loadState = "none"
    /\ call = [fn |-> "none"]
    /\ loadState' = "pending"
    /\ loadsInFlight' = loadsInFlight + 1
    /\ UNCHANGED <<loaderVars, loadError>>

\* readFile settles and load() runs to its end.
LoadSettles(file) ==
    /\ loadState = "pending"
    /\ call = [fn |-> "none"]
    /\ LET out == LoadOutcome(Loader, file)
       IN  /\ spec' = out.loader.spec
           /\ endpointIndex' = out.loader.endpointIndex
           /\ schemaIndex' = out.loader.schemaIndex
           /\ fulltextIndex' = out.loader.fulltextIndex
           /\ loadState' = IF out.threw THEN "rejected" ELSE "resolved"
           /\ loadError' = out.error
    /\ loadsInFlight' = loadsInFlight - 1

\* ------------------------------------------------------------------------
\* The arguments the resolvers are called with
\* ------------------------------------------------------------------------

\* An optional argument: absent, or one of vals.
Optional(vals) == {<<>>} \cup { <<v>> : v \in vals }

\* The object {key: value}, or {} when the argument is absent.
Field(key, opt) == IF opt = <<>> THEN EmptyObject ELSE (key :> opt[1])

ArgFil == <<"/","f","i","l">>                  \* "/fil"
ArgFilUpper == <<"/","F","I","L">>             \* "/FIL"
ArgGet == <<"g","e","t">>                      \* "get"
ArgGetUpper == <<"G","E","T">>                 \* "GET"
ArgListF == <<"l","i","s","t","f">>            \* "listf"
ArgListFUpper == <<"L","I","S","T","F">>       \* "LISTF"
ArgNod == <<"n","o","d">>                      \* "nod"
ArgNodUpper == <<"N","O","D">>                 \* "NOD"
ArgFilName == <<"f","i","l">>                  \* "fil"
ArgFilNameUpper == <<"F","I","L">>             \* "FIL"
ArgId == <<"i","d">>                           \* "id"
ArgIdUpper == <<"I","D">>                      \* "ID"
ArgOd == <<"o","d">>                           \* "od"
ArgBlank == <<" "," ">>                        \* "  "
ArgShortWords == <<"a"," ","i","s"," ","t","o">>            \* "a is to"
ArgListFil == <<"l","i","s","t"," ","f","i","l">>           \* "list fil"
ArgNodNew == <<"N","o","d"," ","n","e","w">>                \* "Nod new"
ArgNodNewUpper == <<"N","O","D"," ","N","E","W">>           \* "NOD NEW"
ArgFilZzz == <<"f","i","l"," ","z","z","z">>                \* "fil zzz"
ArgTheDashFil == <<"t","h","e","-","f","i","l">>            \* "the-fil"
ArgThe == <<"t","h","e">>                                   \* "the"

LimitArgs == {-1} \cup (0..MaxLimit)

OffsetArgs == 0..MaxLimit

\* The filters of searchEndpoints, in every combination, without a limit.
EndpointFilterArgs ==
    { Merge(Merge(Field("path", p), Field("method", m)),
            Merge(Field("operationId", o), Field("tag", t))) :
        p \in Optional({ArgFil, ArgFilUpper}), m \in Optional({ArgGet, ArgGetUpper}),
        o \in Optional({<<>>, ArgListF, ArgListFUpper}),
        t \in Optional({ArgNod, ArgNodUpper}) }

\* A limit with the path and operationId filters.
EndpointLimitArgs ==
    { Merge(Merge(Field("path", p), Field("operationId", o)), [limit |-> l]) :
        p \in Optional({ArgFil, ArgFilUpper}),
        o \in Optional({ArgListF, ArgListFUpper}), l \in LimitArgs }

EndpointSearchArgs == EndpointFilterArgs \cup EndpointLimitArgs

TagSearchArgs ==
    { Merge([tag |-> t], Field("includeDescription", d)) :
        t \in {<<>>, ArgFilName, ArgFilNameUpper, ArgOd}, d \in Optional(BOOLEAN) }

\* Endpoints of the documents, and one that no document has.
SchemaEndpointArgs ==
    { [path |-> PathNod, method |-> MethodPost],
      [path |-> PathFilId, method |-> MethodGet],
      [path |-> PathFilId, method |-> MethodDelete],
      [path |-> PathNod, method |-> MethodPut] }

SchemaSearchArgs ==
    { Merge(Merge(Field("schemaName", n), Field("property", q)),
            Merge(Field("path", p), Field("method", m))) :
        n \in Optional({<<>>, ArgFilName, ArgFilNameUpper}),
        q \in Optional({ArgId, ArgIdUpper}),
        p \in Optional({ArgFil, ArgFilUpper}), m \in Optional({ArgGet, ArgGetUpper}) }
    \cup SchemaEndpointArgs

ArgPage == <<"p","a","g","e">>                                  \* "page"
ArgLis == <<"l","i","s">>                                       \* "lis"

Queries ==
    {<<>>, ArgBlank, ArgShortWords, ArgFilName, ArgFilNameUpper, ArgListFil,
     ArgNodNew, ArgNodNewUpper, ArgFilZzz, ArgTheDashFil, ArgThe, ArgPage, ArgLis}

FulltextSearchArgs ==
    { Merge([query |-> q], Field("limit", l)) : q \in Queries, l \in Optional(LimitArgs) }

ListEndpointsArgs ==
    { Merge(Field("limit", l), Field("offset", o)) :
        l \in Optional(LimitArgs), o \in Optional(OffsetArgs) }

\* ------------------------------------------------------------------------
\* Calls of the resolvers on the loader (as a library, as the tests do)
\* ------------------------------------------------------------------------

NoCall == [fn |-> "none"]

NoResult == [threw |-> FALSE, value |-> <<>>]

CallSearchEndpoints(params) ==
    /\ call = NoCall
    /\ call' = [fn |-> "searchEndpoints", params |-> params]
    /\ result' = SearchEndpoints(Loader, params)
    /\ UNCHANGED loaderVars

\* searchByTag emptying the endpoint lists it hands out.
CallSearchByTagConsuming(params) ==
    /\ call = NoCall
    /\ call' = [fn |-> "searchByTag", params |-> params]
    /\ result' = SearchByTag(Loader, params)
    /\ endpointIndex' =
           IF IsNull(endpointIndex) THEN endpointIndex
           ELSE [endpointIndex EXCEPT !.tags =
                    [i \in 1..Len(endpointIndex.tags) |->
                        <<endpointIndex.tags[i][1], <<>> >>]]
    /\ UNCHANGED <<spec, schemaIndex, fulltextIndex>>

CallSearchByTag(params) ==
    /\ call = NoCall
    /\ call' = [fn |-> "searchByTag", params |-> params]
    /\ result' = SearchByTag(Loader, params)
    /\ UNCHANGED loaderVars

CallSearchSchemas(params) ==
    /\ call = NoCall
    /\ call' = [fn |-> "searchSchemas", params |-> params]
    /\ result' = SearchSchemas(Loader, params)
    /\ UNCHANGED loaderVars

CallFulltextSearch(params) ==
    /\ call = NoCall
    /\ call' = [fn |-> "fulltextSearch", params |-> params]
    /\ result' = FulltextSearch(Loader, params)
    /\ UNCHANGED loaderVars

CallListEndpoints(params) ==
    /\ call = NoCall
    /\ call' = [fn |-> "listEndpoints", params |-> params]
    /\ result' = ListEndpoints(Loader, params)
    /\ UNCHANGED loaderVars

\* The caller takes the value (or catches the error) and goes on.
CallReturns ==
    /\ call # NoCall
    /\ call' = NoCall
    /\ result' = NoResult
    /\ UNCHANGED loaderVars

Init ==
    /\ spec = JsNull
    /\ endpointIndex = JsNull
    /\ schemaIndex = JsNull
    /\ fulltextIndex = JsNull
    /\ loadState = "none"
    /\ loadError = ""
    /\ loadsInFlight = 0
    /\ call = NoCall
    /\ result = NoResult
    /\ mainPc = "library"
    /\ transportStarted = FALSE
    /\ exitCode = -1
    /\ request = [name |-> "none"]
    /\ response = [kind |-> "none"]
    /\ IxIdle

Next ==
    \/ LoadCalled /\ UNCHANGED <<callVars, mainVars, ixVars>>
    \/ \E file \in Files : LoadSettles(file) /\ UNCHANGED <<callVars, mainVars, ixVars>>
    \/ \E params \in EndpointSearchArgs :
           CallSearchEndpoints(params) /\ UNCHANGED <<loadState, loadError, loadsInFlight, mainVars, ixVars>>
    \/ \E params \in TagSearchArgs :
           CallSearchByTag(params) /\ UNCHANGED <<loadState, loadError, loadsInFlight, mainVars, ixVars>>
    \/ \E params \in SchemaSearchArgs :
           CallSearchSchemas(params) /\ UNCHANGED <<loadState, loadError, loadsInFlight, mainVars, ixVars>>
    \/ \E params \in FulltextSearchArgs :
           CallFulltextSearch(params) /\ UNCHANGED <<loadState, loadError, loadsInFlight, mainVars, ixVars>>
    \/ \E params \in ListEndpointsArgs :
           CallListEndpoints(params) /\ UNCHANGED <<loadState, loadError, loadsInFlight, mainVars, ixVars>>
    \/ CallReturns /\ UNCHANGED <<loadState, loadError, loadsInFlight, mainVars, ixVars>>

Spec == Init /\ [][Next]_vars

\* ------------------------------------------------------------------------
\* OsfApiMcpServer: the tool call request handler
\* ------------------------------------------------------------------------

\* {content: [{type: 'text', text: JSON.stringify(value, null, 2)}]}
TextResponse(value) ==
    [content |-> <<[type |-> "text", text |-> [json |-> value]]>>]

\* {content: [{type: 'text', text: `Error: ${errorMessage}`}]}
ErrorResponse(error) ==
    [content |-> <<[type |-> "text", text |-> [prefix |-> "Error: ", message |-> error]]>>]

\* A handler whose throw escapes the catch (as the rejection of a promise
\* that the try does not await would): the request is answered by a failure.
RespondUncaught(outcome) ==
    IF outcome.threw THEN [rejected |-> outcome.error] ELSE TextResponse(outcome.value)

\* A handler that returns the resolver's results, the catch turning what it
\* throws into an error response.
Respond(outcome) ==
    IF outcome.threw THEN ErrorResponse(outcome.error) ELSE TextResponse(outcome.value)

\* A check that passes the empty string on.
MissingOnlyWhenAbsent(args, key) == ~Has(args, key)

\* !args.key
Missing(args, key) == ~Has(args, key) \/ args[key] = <<>>

HandleSearchEndpoints(loader, args) == Respond(SearchEndpoints(loader, args))

HandleSearchByTag(loader, args) ==
    IF Missing(args, "tag") THEN ErrorResponse(Error("tag parameter is required"))
    ELSE Respond(SearchByTag(loader, args))

HandleSearchSchemas(loader, args) == Respond(SearchSchemas(loader, args))

HandleFulltextSearch(loader, args) ==
    IF Missing(args, "query") THEN ErrorResponse(Error("query parameter is required"))
    ELSE Respond(FulltextSearch(loader, args))

\* new Error(`Endpoint not found: ${method.toUpperCase()} ${path}`)
EndpointNotFound(method, path) ==
    [text |-> "Endpoint not found: ", method |-> ToUpperCase(method), path |-> path]

\* The handler looking the method up as it was given.
HandleGetEndpointDetailsMethodAsGiven(loader, args) ==
    IF Missing(args, "path") \/ Missing(args, "method")
    THEN ErrorResponse(Error("path and method parameters are required"))
    ELSE LET got == GetEndpointIndex(loader)
         IN  IF got.threw THEN ErrorResponse(got.error)
             ELSE LET found == LookupOperation(got.value, args.path, args.method)
                  IN  IF found = <<>>
                      THEN ErrorResponse(EndpointNotFound(args.method, args.path))
                      ELSE TextResponse(
                               Merge([path |-> args.path,
                                      method |-> ToUpperCase(args.method)],
                                     Pick(found[1], {"summary", "description",
                                          "operationId", "tags", "parameters",
                                          "responses"})))

HandleGetEndpointDetails(loader, args) ==
    IF Missing(args, "path") \/ Missing(args, "method")
    THEN ErrorResponse(Error("path and method parameters are required"))
    ELSE LET got == GetEndpointIndex(loader)
         IN  IF got.threw THEN ErrorResponse(got.error)
             ELSE LET found == LookupOperation(got.value, args.path,
                                               ToUpperCase(args.method))
                  IN  IF found = <<>>
                      THEN ErrorResponse(EndpointNotFound(args.method, args.path))
                      ELSE TextResponse(
                               Merge([path |-> args.path,
                                      method |-> ToUpperCase(args.method)],
                                     Pick(found[1], {"summary", "description",
                                          "operationId", "tags", "parameters",
                                          "responses"})))

TagInfo(doc, tagName) ==
    Merge([name |-> tagName], TagDescription(doc, tagName))

HandleListTags(loader) ==
    LET got == GetSpec(loader)
    IN  IF got.threw THEN ErrorResponse(got.error)
        ELSE IF ~Has(got.value, "tags") THEN ErrorResponse(Error(TypeErrorThrown))
        ELSE LET doc == got.value
                 groups == IF Has(doc, XTagGroups) THEN doc[XTagGroups] ELSE <<>>
             IN  TextResponse(
                     [tagGroups |->
                          [g \in 1..Len(groups) |->
                              [name |-> groups[g].name,
                               tags |-> [t \in 1..Len(groups[g].tags) |->
                                            TagInfo(doc, groups[g].tags[t])]]],
                      allTags |->
                          [t \in 1..Len(doc.tags) |->
                              Pick(doc.tags[t], {"name", "description"})]])

\* new Error(`Unknown tool: ${name}`)
UnknownTool(name) == [text |-> "Unknown tool: ", name |-> name]

\* The CallToolRequestSchema handler: the switch on the tool's name inside
\* the try, `args || {}` being the arguments.
HandleCallTool(loader, name, args) ==
    CASE name = "search_endpoints" -> HandleSearchEndpoints(loader, args)
      [] name = "search_by_tag" -> HandleSearchByTag(loader, args)
      [] name = "search_schemas" -> HandleSearchSchemas(loader, args)
      [] name = "fulltext_search" -> HandleFulltextSearch(loader, args)
      [] name = "get_endpoint_details" -> HandleGetEndpointDetails(loader, args)
      [] name = "list_tags" -> HandleListTags(loader)
      [] OTHER -> ErrorResponse(UnknownTool(name))

\* OsfApiMcpServer.getTools: the names of the tools, in the order of the list.
GetTools ==
    <<"search_endpoints", "search_by_tag", "search_schemas", "fulltext_search",
      "get_endpoint_details", "list_tags">>

\* The requests a client sends.
ToolRequests ==
    { [name |-> "search_endpoints", arguments |-> a] :
        a \in {EmptyObject, [path |-> ArgFil], [operationId |-> ArgListF]} }
    \cup { [name |-> "search_by_tag", arguments |-> a] :
        a \in {EmptyObject, [tag |-> <<>>], [tag |-> ArgFilName],
               [tag |-> ArgFilName, includeDescription |-> TRUE]} }
    \cup { [name |-> "search_schemas", arguments |-> a] :
        a \in {EmptyObject, [schemaName |-> ArgFilName],
               [path |-> ArgFil, method |-> ArgGet]} }
    \cup { [name |-> "fulltext_search", arguments |-> a] :
        a \in {EmptyObject, [query |-> <<>>], [query |-> ArgListFil]} }
    \cup { [name |-> "get_endpoint_details", arguments |-> a] :
        a \in {EmptyObject, [path |-> ArgFil], [method |-> ArgGet],
               [path |-> <<>>, method |-> ArgGet], [path |-> ArgFil, method |-> <<>>],
               [path |-> ArgFil, method |-> ArgGet],
               [path |-> ArgFilUpper, method |-> ArgGetUpper],
               [path |-> ArgFil, method |-> ArgNod]} }
    \cup { [name |-> n, arguments |-> EmptyObject] :
        n \in {"list_tags", "list_endpoints", "unknown_tool"} }

\* ------------------------------------------------------------------------
\* main()
\* ------------------------------------------------------------------------

\* main() calling run() before initialize().
MainStartsServingFirst ==
    /\ mainPc = "start"
    /\ LoadCalled
    /\ mainPc' = "initializing"
    /\ transportStarted' = TRUE
    /\ UNCHANGED <<exitCode, request, response, callVars, ixVars>>

\* main() runs up to the await in SwaggerLoader.load: the server and its
\* loader are constructed, the handlers are registered, initialize() calls
\* load().
MainStarts ==
    /\ mainPc = "start"
    /\ LoadCalled
    /\ mainPc' = "initializing"
    /\ UNCHANGED <<transportStarted, exitCode, request, response, callVars, ixVars>>

\* readFile settles and everything that follows runs to completion: load()
\* resolves, initialize() returns and run() calls server.connect(transport);
\* or load() rejects, initialize() and main() reject, and the catch of main()
\* calls process.exit(1).
MainLoadSettles(file) ==
    /\ mainPc = "initializing"
    /\ LoadSettles(file)
    /\ IF loadState' = "resolved"
       THEN /\ mainPc' = "connecting"
            /\ transportStarted' = TRUE
            /\ exitCode' = exitCode
       ELSE /\ mainPc' = "exited"
            /\ transportStarted' = transportStarted
            /\ exitCode' = 1
    /\ UNCHANGED <<request, response, callVars, ixVars>>

\* server.connect resolves and run() returns.
MainConnected ==
    /\ mainPc = "connecting"
    /\ mainPc' = "running"
    /\ UNCHANGED <<loaderVars, loadState, loadError, loadsInFlight, callVars, transportStarted,
                   exitCode, request, response, ixVars>>

\* server.connect rejects: main() rejects and its catch exits.
MainConnectFails ==
    /\ mainPc = "connecting"
    /\ mainPc' = "exited"
    /\ exitCode' = 1
    /\ UNCHANGED <<loaderVars, loadState, loadError, loadsInFlight, callVars, transportStarted,
                   request, response, ixVars>>

\* A tool call request arrives on the transport and is answered.
ToolCallHandled(req) ==
    /\ transportStarted
    /\ exitCode = -1
    /\ request' = req
    /\ response' = HandleCallTool(Loader, req.name, req.arguments)
    /\ UNCHANGED <<loaderVars, loadState, loadError, loadsInFlight, callVars, mainPc,
                   transportStarted, exitCode, ixVars>>

\* A ListTools request arrives and is answered with {tools: this.getTools()}.
ToolsListed ==
    /\ transportStarted
    /\ exitCode = -1
    /\ request' = [name |-> "tools/list", arguments |-> EmptyObject]
    /\ response' = [tools |-> GetTools]
    /\ UNCHANGED <<loaderVars, loadState, loadError, loadsInFlight, callVars, mainPc,
                   transportStarted, exitCode, ixVars>>

MainInit ==
    /\ spec = JsNull
    /\ endpointIndex = JsNull
    /\ schemaIndex = JsNull
    /\ fulltextIndex = JsNull
    /\ loadState = "none"
    /\ loadError = ""
    /\ loadsInFlight = 0
    /\ call = NoCall
    /\ result = NoResult
    /\ mainPc = "start"
    /\ transportStarted = FALSE
    /\ exitCode = -1
    /\ request = [name |-> "none"]
    /\ response = [kind |-> "none"]
    /\ IxIdle

MainNext ==
    \/ MainStarts
    \/ \E file \in Files : MainLoadSettles(file)
    \/ MainConnected
    \/ MainConnectFails
    \/ \E req \in ToolRequests : ToolCallHandled(req)
    \/ ToolsListed

MainSpec == MainInit /\ [][MainNext]_vars

\* ------------------------------------------------------------------------
\* OsfApiMcpServer used as a class: initialize() and run() in any order
\* ------------------------------------------------------------------------

\* run() is called and connects the transport, initialize() having completed
\* or not: from then on requests reach the handlers the constructor set.
ServerRunCalled ==
    /\ ~transportStarted
    /\ transportStarted' = TRUE
    /\ UNCHANGED <<loaderVars, loadState, loadError, loadsInFlight, callVars, mainPc,
                   exitCode, request, response, ixVars>>

ServerNext ==
    \/ LoadCalled /\ UNCHANGED <<callVars, mainVars, ixVars>>
    \/ \E file \in Files : LoadSettles(file) /\ UNCHANGED <<callVars, mainVars, ixVars>>
    \/ ServerRunCalled
    \/ \E req \in ToolRequests : ToolCallHandled(req)
    \/ ToolsListed

ServerSpec == Init /\ [][ServerNext]_vars

\* ------------------------------------------------------------------------
\* One loader, load() called again and again
\* ------------------------------------------------------------------------

MaxLoadsInFlight == 2

\* The files of the repeated loads: every way load() can reject, and
\* documents it accepts.
ReloadFiles ==
    {[kind |-> "unreadable"], [kind |-> "invalid-json"], [kind |-> "json", value |-> JsNull]}
    \cup { [kind |-> "json", value |-> d] :
             d \in {DocumentNoTagDefinitions, DocumentUndefinedTitle, DocumentNoPaths,
                    DocumentNullResponse, DocumentNullParameter} }

\* load() is called, whatever became of the calls before it, and runs up to
\* `await readFile(...)`.
LoadCalledAgain ==
    /\ call = NoCall
    /\ loadsInFlight < MaxLoadsInFlight
    /\ loadsInFlight' = loadsInFlight + 1
    /\ UNCHANGED <<loaderVars, loadState, loadError>>

\* readFile settles for one of the calls in flight, in any order, and that
\* load() runs to its end; loadState is then the state of its promise.
OneLoadSettles(file) ==
    /\ call = NoCall
    /\ loadsInFlight > 0
    /\ LET out == LoadOutcome(Loader, file)
       IN  /\ spec' = out.loader.spec
           /\ endpointIndex' = out.loader.endpointIndex
           /\ schemaIndex' = out.loader.schemaIndex
           /\ fulltextIndex' = out.loader.fulltextIndex
           /\ loadState' = IF out.threw THEN "rejected" ELSE "resolved"
           /\ loadError' = out.error
    /\ loadsInFlight' = loadsInFlight - 1

ReloadNext ==
    \/ LoadCalledAgain /\ UNCHANGED <<callVars, mainVars, ixVars>>
    \/ \E file \in ReloadFiles :
           OneLoadSettles(file) /\ UNCHANGED <<callVars, mainVars, ixVars>>
    \/ CallSearchEndpoints(EmptyObject)
           /\ UNCHANGED <<loadState, loadError, loadsInFlight, mainVars, ixVars>>
    \/ CallReturns /\ UNCHANGED <<loadState, loadError, loadsInFlight, mainVars, ixVars>>

ReloadSpec == Init /\ [][ReloadNext]_vars

\* ------------------------------------------------------------------------
\* The two tokenizers, called on their own
\* ------------------------------------------------------------------------

\* The longest generated text.
MaxTextLen == 4

\* A lower-case letter, an upper-case letter, a digit, white space and
\* punctuation.
TextChars == {"a", "B", "1", " ", "-"}

TextFileUpload == <<"f","i","l","e","-","u","p","l","o","a","d">>     \* "file-upload"
TextOsApiId == <<"O","S"," ","A","P","I"," ","i","d">>                \* "OS API id"
TextTabs == <<"\t","a","b","c","\n","\t","d","e","_","X","Y","Z","9","\n">>

Texts ==
    UNION { [1..n -> TextChars] : n \in 0..MaxTextLen }
    \cup {TextFileUpload, TextOsApiId, TextTabs, ArgId, ArgBlank, ArgShortWords,
          <<"a","p","i">>}

\* tokenize(text) of the fulltext search module
CallTokenize(text) ==
    /\ call = NoCall
    /\ call' = [fn |-> "tokenize", text |-> text]
    /\ result' = Returned(Tokenize(text))
    /\ UNCHANGED loaderVars

\* this.tokenize(text) of SwaggerLoader
CallLoaderTokenize(text) ==
    /\ call = NoCall
    /\ call' = [fn |-> "SwaggerLoader.tokenize", text |-> text]
    /\ result' = Returned(LoaderTokenize(text))
    /\ UNCHANGED loaderVars

TokenizeNext ==
    \/ \E text \in Texts :
           CallTokenize(text) /\ UNCHANGED <<loadState, loadError, loadsInFlight, mainVars, ixVars>>
    \/ \E text \in Texts :
           CallLoaderTokenize(text) /\ UNCHANGED <<loadState, loadError, loadsInFlight, mainVars, ixVars>>
    \/ CallReturns /\ UNCHANGED <<loadState, loadError, loadsInFlight, mainVars, ixVars>>

TokenizeSpec == Init /\ [][TokenizeNext]_vars

\* ------------------------------------------------------------------------
\* SwaggerLoader.indexSchemaProperties, call by call
\* ------------------------------------------------------------------------

\* The deepest nesting of `items` in the response schemas that are walked.
MaxItemsDepth == 3

RefKey == "$ref"

\* {"$ref": "#"}: in a parsed JSON document a schema refers to itself (or to
\* a schema that contains it) by a reference string, never by identity.
SelfReference == (RefKey :> <<"#">>)

\* What a schema holds besides `items`.
IxBases ==
    { EmptyObject,
      [type |-> TypeArray],
      [properties |-> << <<PropId, SchemaLeaf>>, <<PropSize, SchemaLeaf>> >>],
      [properties |-> << <<PropInner, SelfReference>> >>] }

\* The schemas whose `items` are nested exactly d deep, the innermost being
\* a plain schema or a reference back to the document.
RECURSIVE ItemsChains(_)
ItemsChains(d) ==
    IF d = 0 THEN IxBases \cup {SelfReference}
    ELSE { Merge(b, [items |-> inner]) : b \in IxBases, inner \in ItemsChains(d - 1) }

IxSchemas == UNION { ItemsChains(d) : d \in 0..MaxItemsDepth }

\* buildSchemaIndex calls this.indexSchemaProperties(response.schema,
\* schemaResult, byProperty).
IxCalled(responseSchema) ==
    /\ ixPc = "idle"
    /\ ixPc' = "properties"
    /\ ixSchema' = responseSchema
    /\ ixSchemaResult' =
           SchemaResultOf(PathFil, ToUpperCase(MethodGet), EmptyObject, responseSchema)
    /\ ixByProperty' = <<>>
    /\ ixDepth' = 1

\* if (schema.properties) { for (const propName of Object.keys(...)) ... }
IxProperties ==
    /\ ixPc = "properties"
    /\ ixByProperty' =
           IF Has(ixSchema, "properties")
           THEN PushProperties(ixByProperty, ixSchema.properties, 1, ixSchemaResult)
           ELSE ixByProperty
    /\ ixPc' = "items"
    /\ UNCHANGED <<ixSchema, ixSchemaResult, ixDepth>>

\* The recursive call made on the schema itself instead of its items (the
\* call stack is cut off where the runtime would overflow).
IxItemsRevisiting ==
    /\ ixPc = "items"
    /\ ixDepth <= MaxItemsDepth + 1
    /\ IF Has(ixSchema, "items")
       THEN /\ ixSchema' = ixSchema
            /\ ixDepth' = ixDepth + 1
            /\ ixPc' = "properties"
       ELSE /\ ixSchema' = ixSchema
            /\ ixDepth' = 0
            /\ ixPc' = "done"
    /\ UNCHANGED <<ixSchemaResult, ixByProperty>>

\* if (schema.items) this.indexSchemaProperties(schema.items, ...): one more
\* call on the stack; without items the call, and with it every call below
\* it, returns.
IxItems ==
    /\ ixPc = "items"
    /\ IF Has(ixSchema, "items")
       THEN /\ ixSchema' = ixSchema.items
            /\ ixDepth' = ixDepth + 1
            /\ ixPc' = "properties"
       ELSE /\ ixSchema' = ixSchema
            /\ ixDepth' = 0
            /\ ixPc' = "done"
    /\ UNCHANGED <<ixSchemaResult, ixByProperty>>

IxNext ==
    \/ \E responseSchema \in IxSchemas :
           IxCalled(responseSchema) /\ UNCHANGED <<loaderVars, loadState, loadError, loadsInFlight,
                                                    callVars, mainVars>>
    \/ IxProperties /\ UNCHANGED <<loaderVars, loadState, loadError, loadsInFlight, callVars, mainVars>>
    \/ IxItems /\ UNCHANGED <<loaderVars, loadState, loadError, loadsInFlight, callVars, mainVars>>

\* A synchronous call runs on: every step that can be taken is taken.
IndexSpec == Init /\ [][IxNext]_vars /\ WF_vars(IxNext)

\* ------------------------------------------------------------------------
\* Claims
\* ------------------------------------------------------------------------

Settled == loadState \in {"resolved", "rejected"}

AllIndexesReturn ==
    /\ ~GetEndpointIndex(Loader).threw
    /\ ~GetSchemaIndex(Loader).threw
    /\ ~GetFulltextIndex(Loader).threw

AllIndexesThrow ==
    /\ GetEndpointIndex(Loader) = Threw(IndexesNotBuilt)
    /\ GetSchemaIndex(Loader) = Threw(IndexesNotBuilt)
    /\ GetFulltextIndex(Loader) = Threw(IndexesNotBuilt)

\* C1: once load() on a fresh loader has settled, the three indexes are all
\* or nothing: after a resolved load the three index accessors return; after
\* a rejected load, whatever made it reject, the three throw the
\* not-initialized error and a resolver call returns no result; no state has
\* one index populated and another null.
C1_AllOrNothing ==
    /\ (loadState = "resolved" => AllIndexesReturn)
    /\ (loadState = "rejected" =>
            /\ AllIndexesThrow
            /\ (call # NoCall => result.threw))
    /\ (AllIndexesReturn \/ AllIndexesThrow)

\* C2: while no load() has succeeded (load() not called, or pending, or
\* rejected because the file could not be read) getSpec() and the three index
\* accessors throw their Error instead of returning null, and so every
\* resolver call throws one of these errors and returns nothing.
C2_NotLoadedThrows ==
    (loadState \in {"none", "pending"} \/ (loadState = "rejected" /\ loadError = "ENOENT"))
    => /\ GetSpec(Loader) = Threw(SpecNotLoaded)
       /\ AllIndexesThrow
       /\ (call # NoCall =>
               result \in {Threw(SpecNotLoaded), Threw(IndexesNotBuilt)})

\* A resolver was called after a load() that rejected on an unreadable file,
\* and threw.
C2_Witness ==
    /\ loadState = "rejected"
    /\ loadError = "ENOENT"
    /\ call # NoCall
    /\ call.fn = "searchByTag"
    /\ result = Threw(SpecNotLoaded)

\* C3: in the process started by main() the load completes before any tool
\* request is handled: the transport is started only after load() resolved,
\* every request is answered from a loaded loader (never with the
\* not-initialized error), and when load() rejects the server never starts
\* serving and the process has exited with code 1.
C3_LoadBeforeServing ==
    /\ (transportStarted => loadState = "resolved")
    /\ (request.name # "none" =>
            /\ loadState = "resolved"
            /\ response \notin {ErrorResponse(Error(SpecNotLoaded)),
                                ErrorResponse(Error(IndexesNotBuilt))})
    /\ (loadState = "rejected" =>
            /\ ~transportStarted
            /\ mainPc = "exited"
            /\ exitCode = 1)

\* A tool request was answered with results by the running server.
C3_Witness ==
    /\ mainPc = "running"
    /\ loadState = "resolved"
    /\ request.name = "fulltext_search"
    /\ response \notin {TextResponse(<<>>)}
    /\ Has(response.content[1].text, "json")

\* The process exited with code 1 because load() rejected.
C3_WitnessExit ==
    /\ loadState = "rejected"
    /\ mainPc = "exited"
    /\ exitCode = 1

\* C4: after a successful load(), no resolver call (and no return from one)
\* changes the loaded spec or any of the three indexes.
C4_ResolversReadOnly ==
    [][loadState = "resolved" => UNCHANGED loaderVars]_vars

\* A resolver returned results from the indexes of a loaded specification.
C4_Witness ==
    /\ loadState = "resolved"
    /\ call # NoCall
    /\ call.fn = "searchByTag"
    /\ ~result.threw
    /\ result.value # <<>>

\* The call in progress is a call of fn that returned (did not throw).
ReturnedFrom(fn) == call # NoCall /\ call.fn = fn /\ ~result.threw

\* C5: every score fulltextSearch returns is finite (not Infinity, -Infinity
\* or NaN), also for a query that mixes tokens of the index with tokens that
\* are in no document: no term divides by a document frequency of zero.
C5_ScoresFinite ==
    ReturnedFrom("fulltextSearch") =>
        \A i \in 1..Len(result.value) : IsFiniteScore(result.value[i].score)

\* A query with a token of the index and a token of no document returned a
\* scored result.
C5_Witness ==
    /\ ReturnedFrom("fulltextSearch")
    /\ call.params.query = ArgFilZzz
    /\ result.value # <<>>
    /\ \E t \in Range(Tokenize(call.params.query)) : ~MapHas(fulltextIndex.words, t)
    /\ \E t \in Range(Tokenize(call.params.query)) : MapHas(fulltextIndex.words, t)

\* The queries with no token: the empty string, white space only, and words
\* of at most two characters.
TokenlessQueries == {<<>>, ArgBlank, ArgShortWords}

\* C6: on a loader whose fulltext index is built, fulltextSearch returns the
\* empty list and does not throw when the query has no token: the empty
\* string, a white-space-only string, a string of words of 2 or fewer
\* characters (and any query the tokenizer leaves no token of).
C6_EmptyQueryReturnsEmpty ==
    (/\ call # NoCall
     /\ call.fn = "fulltextSearch"
     /\ ~GetFulltextIndex(Loader).threw
     /\ (call.params.query \in TokenlessQueries \/ Tokenize(call.params.query) = <<>>))
    => result = Returned(<<>>)

\* Each of the three kinds of tokenless query was answered with the empty
\* list from an index that holds documents.
C6_Witness ==
    /\ ReturnedFrom("fulltextSearch")
    /\ loadState = "resolved"
    /\ fulltextIndex.words # <<>>
    /\ call.params.query = ArgShortWords
    /\ result = Returned(<<>>)

\* The (path, method) of every document fulltextSearch scores for the query,
\* with its score, before sorting and truncation.
ScoredDocuments(index, query) ==
    LET scores == ScoreTokens(<<>>, index, Tokenize(query), 1)
    IN  { [path |-> MapGet(index.documents, scores[i][1]).path,
           method |-> MapGet(index.documents, scores[i][1]).method,
           score |-> scores[i][2].score] : i \in 1..Len(scores) }

Returns(results, d) ==
    \E i \in 1..Len(results) :
        results[i].path = d.path /\ results[i].method = d.method

\* C7: the list fulltextSearch returns is ordered by score, non-increasing,
\* and the truncation keeps the best: no document that matched the query and
\* was cut off by `limit` has a score greater than a returned document's.
C7_SortedAndBestKept ==
    ReturnedFrom("fulltextSearch") =>
        /\ \A i, j \in 1..Len(result.value) :
               i < j => ~ScoreGreater(result.value[j].score, result.value[i].score)
        /\ \A d \in ScoredDocuments(fulltextIndex, call.params.query) :
               ~Returns(result.value, d) =>
                   \A i \in 1..Len(result.value) :
                       ~ScoreGreater(d.score, result.value[i].score)

\* A result list that `limit` truncated, a document with a smaller score
\* being cut off although the index lists it before the one returned.
C7_Witness ==
    /\ ReturnedFrom("fulltextSearch")
    /\ Len(result.value) = 1
    /\ Has(call.params, "limit")
    /\ \E d \in ScoredDocuments(fulltextIndex, call.params.query) :
           /\ ~Returns(result.value, d)
           /\ ScoreGreater(result.value[1].score, d.score)
           /\ LET ids == MapKeys(fulltextIndex.documents)
                  pos(path, method) ==
                      CHOOSE k \in 1..Len(ids) :
                          /\ MapGet(fulltextIndex.documents, ids[k]).path = path
                          /\ MapGet(fulltextIndex.documents, ids[k]).method = method
              IN  pos(d.path, d.method) < pos(result.value[1].path, result.value[1].method)

\* The parameters that are strings.
StringParams == {"path", "method", "operationId", "tag", "schemaName", "property", "query"}

\* Two parameter objects that differ at most in the letter case of their
\* string parameters.
CaseVariant(p, q) ==
    /\ DOMAIN p = DOMAIN q
    /\ \A k \in DOMAIN p :
           IF k \in StringParams THEN ToLowerCase(p[k]) = ToLowerCase(q[k])
           ELSE p[k] = q[k]

\* The resolver of the call in progress, applied to other parameters.
Resolve(fn, params) ==
    CASE fn = "searchEndpoints" -> SearchEndpoints(Loader, params)
      [] fn = "searchByTag" -> SearchByTag(Loader, params)
      [] fn = "searchSchemas" -> SearchSchemas(Loader, params)
      [] fn = "fulltextSearch" -> FulltextSearch(Loader, params)
      [] OTHER -> ListEndpoints(Loader, params)

ArgsOf(fn) ==
    CASE fn = "searchEndpoints" -> EndpointSearchArgs
      [] fn = "searchByTag" -> TagSearchArgs
      [] fn = "searchSchemas" -> SchemaSearchArgs
      [] fn = "fulltextSearch" -> FulltextSearchArgs
      [] OTHER -> ListEndpointsArgs

\* searchSchemas looks an endpoint up by the path as it is given.
PathIsExact(fn, params) == fn = "searchSchemas" /\ SchemaCriterion(params) = "endpoint"

\* C8 (as the spec words it): for every resolver, searchSchemas in its path
\* and method mode included, two calls whose string parameters differ only
\* in letter case return identical results.
C8_CaseInsensitiveOnPathToo ==
    call # NoCall =>
        \A q \in ArgsOf(call.fn) :
            CaseVariant(call.params, q) => Resolve(call.fn, q) = result

\* C8 (amended): two calls of a resolver whose string parameters differ only
\* in letter case return identical results, for searchEndpoints (path,
\* method, operationId, tag), searchByTag (tag), fulltextSearch (query) and
\* searchSchemas (schemaName, property, method); the path searchSchemas looks
\* an endpoint up by is matched exactly, so there the two paths must be equal.
C8_CaseInsensitive ==
    call # NoCall =>
        \A q \in ArgsOf(call.fn) :
            (/\ CaseVariant(call.params, q)
             /\ (PathIsExact(call.fn, call.params) => q.path = call.params.path))
            => Resolve(call.fn, q) = result

\* searchSchemas answered by path and lower-case method with the same
\* occurrences as by the upper-case method; searchEndpoints likewise.
C8_Witness ==
    /\ ReturnedFrom("searchSchemas")
    /\ PathIsExact(call.fn, call.params)
    /\ call.params.method = ArgGet
    /\ result.value # <<>>
    /\ [call.params EXCEPT !.method = ArgGetUpper] \in SchemaSearchArgs
    /\ SearchSchemas(Loader, [call.params EXCEPT !.method = ArgGetUpper]) = result

\* Both objects give the parameter, with the same value, or neither does.
SameParam(p, q, k) == (Has(p, k) <=> Has(q, k)) /\ (Has(p, k) => p[k] = q[k])

\* C9: a call of searchEndpoints with a non-empty operationId returns what
\* every call with the same operationId and limit returns, whatever path,
\* method and tag are given or left out, and every endpoint it returns has
\* an operationId that contains the given string, case-insensitively.
C9_OperationIdOverrides ==
    (call # NoCall /\ call.fn = "searchEndpoints" /\ Truthy(call.params, "operationId")) =>
        /\ \A q \in EndpointSearchArgs :
               (SameParam(call.params, q, "operationId") /\ SameParam(call.params, q, "limit"))
               => SearchEndpoints(Loader, q) = result
        /\ result = SearchEndpoints(Loader, Pick(call.params, {"operationId", "limit"}))
        /\ ~result.threw =>
               \A i \in 1..Len(result.value) :
                   /\ Has(result.value[i], "operationId")
                   /\ Includes(ToLowerCase(result.value[i].operationId),
                               ToLowerCase(call.params.operationId))

\* An operationId search that returned an endpoint the path, method and tag
\* given with it would have filtered out.
C9_Witness ==
    /\ ReturnedFrom("searchEndpoints")
    /\ Truthy(call.params, "operationId")
    /\ Truthy(call.params, "path") /\ Truthy(call.params, "method")
    /\ Truthy(call.params, "tag")
    /\ result.value # <<>>
    /\ SearchEndpoints(Loader, Pick(call.params, {"path", "method", "tag"})).value
           # result.value

\* C10: searchSchemas answers by the first criterion given and ignores the
\* rest: with a non-empty schemaName the result is that of every call with
\* the same schemaName; without one and with a non-empty property, that of
\* every call with the same property and no schemaName; with neither, only a
\* call that gives both path and method can return occurrences, and a call
\* with only path, only method or no criterion returns the empty list.
C10_StrictPrecedence ==
    (call # NoCall /\ call.fn = "searchSchemas") =>
        LET p == call.params
        IN  /\ Truthy(p, "schemaName") =>
                   \A q \in SchemaSearchArgs \cup {Pick(p, {"schemaName"})} :
                       SameParam(p, q, "schemaName") => SearchSchemas(Loader, q) = result
            /\ (~Truthy(p, "schemaName") /\ Truthy(p, "property")) =>
                   \A q \in SchemaSearchArgs \cup {Pick(p, {"property"})} :
                       (~Truthy(q, "schemaName") /\ SameParam(p, q, "property"))
                       => SearchSchemas(Loader, q) = result
            /\ (/\ ~Truthy(p, "schemaName") /\ ~Truthy(p, "property")
                /\ ~(Truthy(p, "path") /\ Truthy(p, "method"))
                /\ ~GetSchemaIndex(Loader).threw)
               => result = Returned(<<>>)

\* A call with all four criteria answered by schemaName, where the property
\* alone and the endpoint alone each give another answer; and the endpoint
\* alone gives occurrences.
C10_Witness ==
    /\ ReturnedFrom("searchSchemas")
    /\ Truthy(call.params, "schemaName") /\ Truthy(call.params, "property")
    /\ Truthy(call.params, "path") /\ Truthy(call.params, "method")
    /\ result.value # <<>>
    /\ SearchSchemas(Loader, Pick(call.params, {"property", "path", "method"})) # result
    /\ SearchSchemas(Loader, Pick(call.params, {"path", "method"})) # result
    /\ SearchSchemas(Loader, Pick(call.params, {"path", "method"})).value # <<>>
    /\ SearchSchemas(Loader, Pick(call.params, {"path", "method"}))
           # SearchSchemas(Loader, Pick(call.params, {"property", "path", "method"}))

\* The occurrences searchSchemas collects for the parameters, before the
\* duplicates are removed.
SchemaCandidates(params) ==
    CASE SchemaCriterion(params) = "schemaName" ->
             MatchingOccurrences(schemaIndex.byName, params.schemaName)
      [] SchemaCriterion(params) = "property" ->
             MatchingOccurrences(schemaIndex.byProperty, params.property)
      [] SchemaCriterion(params) = "endpoint" ->
             EndpointOccurrences(endpointIndex, params.path, params.method)
      [] OTHER -> <<>>

\* The same path, the same method and the same schemaName (both absent, or
\* both present and equal).
SameTuple(a, b) ==
    a.path = b.path /\ a.method = b.method /\ SameParam(a, b, "schemaName")

\* C11: the deduplication of searchSchemas is exact on (path, method,
\* schemaName): no two returned occurrences are equal on all three, every
\* returned occurrence is a candidate, and a candidate is dropped only for a
\* returned occurrence with the same path, the same method and the same
\* schemaName (both absent, or both present and equal); an occurrence without
\* a name is never collapsed with a named one.
C11_DedupExactOnTuple ==
    ReturnedFrom("searchSchemas") =>
        LET r == result.value
            c == SchemaCandidates(call.params)
        IN  /\ \A i, j \in 1..Len(r) : i < j => ~SameTuple(r[i], r[j])
            /\ \A i \in 1..Len(r) : \E k \in 1..Len(c) : c[k] = r[i]
            /\ \A k \in 1..Len(c) : \E i \in 1..Len(r) : SameTuple(r[i], c[k])

\* How deep `items` are nested in a schema.
RECURSIVE ItemsDepth(_)
ItemsDepth(schema) ==
    IF Has(schema, "items") THEN 1 + ItemsDepth(schema.items) ELSE 0

\* A schema that holds a reference back to the document, in its innermost
\* items or in a property.
RECURSIVE RefersToItself(_)
RefersToItself(schema) ==
    \/ schema = SelfReference
    \/ /\ Has(schema, "properties")
       /\ \E i \in 1..Len(schema.properties) : schema.properties[i][2] = SelfReference
    \/ Has(schema, "items") /\ RefersToItself(schema.items)

\* C12: indexSchemaProperties terminates on every response schema, also one
\* that refers to itself or whose items are nested deep: the walk reaches its
\* end, it never has more calls on the stack than the schema has levels of
\* items plus one, and at its end the map is the one the builder returns.
C12_IndexingTerminates ==
    /\ <>(ixPc = "done")
    /\ [](ixPc \in {"properties", "items"} =>
              ixDepth + ItemsDepth(ixSchema) = ItemsDepth(ixSchemaResult.schema) + 1)
    /\ [](ixPc = "done" =>
              ixByProperty =
                  IndexSchemaProperties(ixSchemaResult.schema, ixSchemaResult, <<>>))

\* The walk of a schema with the deepest nesting and a reference to itself
\* has ended.
C12_Witness ==
    /\ ixPc = "done"
    /\ ItemsDepth(ixSchemaResult.schema) = MaxItemsDepth
    /\ RefersToItself(ixSchemaResult.schema)
    /\ ixByProperty # <<>>

\* Object.keys(schema.properties), as a set (empty without properties).
PropertyKeys(schema) ==
    IF Has(schema, "properties")
    THEN { schema.properties[i][1] : i \in 1..Len(schema.properties) }
    ELSE {}

\* The property names of a schema and of its items, one level down.
OneLevelKeys(schema) ==
    PropertyKeys(schema)
    \cup (IF Has(schema, "items") THEN PropertyKeys(schema.items) ELSE {})

\* The property names of a schema and of every schema down its items.
RECURSIVE ItemsChainKeys(_)
ItemsChainKeys(schema) ==
    PropertyKeys(schema)
    \cup (IF Has(schema, "items") THEN ItemsChainKeys(schema.items) ELSE {})

\* The property names of the documents, wherever they occur.
PropertyNames == {PropId, PropName, PropSize, PropDeep, PropInner, PropIdUpper}

\* The occurrence is listed under the property name in byProperty.
Registered(name, occurrence) ==
    /\ MapHas(schemaIndex.byProperty, name)
    /\ \E i \in 1..Len(MapGet(schemaIndex.byProperty, name)) :
           MapGet(schemaIndex.byProperty, name)[i] = occurrence

\* The occurrences of the response schemas of the loaded document.
IndexedOccurrences ==
    { Occurrences(spec)[i] : i \in 1..Len(Occurrences(spec)) }

Tokenized == call # NoCall /\ call.fn \in {"tokenize", "SwaggerLoader.tokenize"}

\* The positions of the lower-cased text where a run of [a-z0-9] starts.
RunStarts(lower) ==
    { i \in 1..Len(lower) :
        IsWordChar(lower[i]) /\ (i = 1 \/ ~IsWordChar(lower[i - 1])) }

\* The last position of the run that starts at i.
RunEnd(lower, i) ==
    CHOOSE j \in i..Len(lower) :
        /\ \A k \in i..j : IsWordChar(lower[k])
        /\ (j = Len(lower) \/ ~IsWordChar(lower[j + 1]))

\* The elements of a set of numbers, in increasing order.
RECURSIVE Ascending(_)
Ascending(S) ==
    IF S = {} THEN <<>>
    ELSE LET least == CHOOSE x \in S : \A y \in S : x <= y
         IN  <<least>> \o Ascending(S \ {least})

\* The maximal runs of [a-z0-9] of the lower-cased text that have 3 or more
\* characters, in order of appearance.
LongRuns(text) ==
    LET lower == ToLowerCase(text)
        starts == Ascending({ i \in RunStarts(lower) : RunEnd(lower, i) - i + 1 >= 3 })
    IN  [k \in 1..Len(starts) |-> SubSeq(lower, starts[k], RunEnd(lower, starts[k]))]

\* C14: the tokenizer is total and returns, in order of appearance, the
\* maximal runs of [a-z0-9] of the lower-cased text that are 3 or more
\* characters long: every token has 3 or more characters, all of [a-z0-9];
\* an empty or white-space-only text gives no token; "file-upload" gives
\* "file", "upload"; "id" gives nothing; "api" gives "api".
C14_TokensAreLongRuns ==
    Tokenized =>
        /\ ~result.threw
        /\ result.value = LongRuns(call.text)
        /\ \A k \in 1..Len(result.value) :
               /\ Len(result.value[k]) >= 3
               /\ \A i \in 1..Len(result.value[k]) : IsWordChar(result.value[k][i])
        /\ (\A i \in 1..Len(call.text) : IsSpace(call.text[i])) => result.value = <<>>
        /\ call.text = TextFileUpload =>
               result.value = << <<"f","i","l","e">>, <<"u","p","l","o","a","d">> >>
        /\ call.text = ArgId => result.value = <<>>
        /\ call.text = <<"a","p","i">> => result.value = << <<"a","p","i">> >>

\* The query tokenizer has split "file-upload" in two.
C14_Witness ==
    /\ Tokenized
    /\ call.fn = "tokenize"
    /\ call.text = TextFileUpload
    /\ Len(result.value) = 2

\* C15: the tokenizer of the index builder (SwaggerLoader.tokenize) and the
\* tokenizer of the queries (tokenize of the fulltext search module) return
\* the same token sequence for every text: what either returned is what the
\* other returns for that text.
C15_SameTokens ==
    Tokenized =>
        /\ ~result.threw
        /\ call.fn = "tokenize" => result.value = LoaderTokenize(call.text)
        /\ call.fn = "SwaggerLoader.tokenize" => result.value = Tokenize(call.text)

\* The builder's tokenizer has dropped the short words of "OS API id" and
\* kept "api", as the query tokenizer does.
C15_Witness ==
    /\ Tokenized
    /\ call.fn = "SwaggerLoader.tokenize"
    /\ call.text = TextOsApiId
    /\ result.value = << <<"a","p","i">> >>
    /\ Tokenize(call.text) = result.value

\* The first n elements of a sequence (all of them when it has fewer, none
\* when n is not positive).
FirstN(seq, n) ==
    IF n <= 0 THEN <<>> ELSE SubSeq(seq, 1, IF n < Len(seq) THEN n ELSE Len(seq))

\* The triple satisfies every filter that is given, letter case aside.
SatisfiesFilters(o, params) ==
    /\ Truthy(params, "path") =>
           Includes(ToLowerCase(o.path), ToLowerCase(params.path))
    /\ Truthy(params, "method") => ToLowerCase(o.method) = ToLowerCase(params.method)
    /\ Truthy(params, "tag") =>
           /\ Has(o.operation, "tags")
           /\ \E k \in 1..Len(o.operation.tags) :
                  Includes(ToLowerCase(o.operation.tags[k]), ToLowerCase(params.tag))

\* The endpoints of the index that satisfy the filters, in traversal order.
FilteredEndpoints(params) ==
    LET hits == SelectSeq(IndexedOperations(endpointIndex),
                          LAMBDA o : SatisfiesFilters(o, params))
    IN  [i \in 1..Len(hits) |->
            EndpointResultOf(hits[i].path, hits[i].method, hits[i].operation)]

\* The limit of the call: the one given, or the default.
LimitOf(params, default) == IF Has(params, "limit") THEN params.limit ELSE default

\* C16: without an operationId, searchEndpoints returns exactly the first
\* `limit` (default 10) of the endpoints of the index, in traversal order,
\* that satisfy every given filter (path contained, method equal, a tag
\* containing the tag filter, letter case aside); the result never has more
\* than `limit` entries, and without a filter it is the first `limit`
\* endpoints of the index.
C16_FirstLimitOfFiltered ==
    (ReturnedFrom("searchEndpoints") /\ ~Truthy(call.params, "operationId")) =>
        /\ result.value =
               FirstN(FilteredEndpoints(call.params),
                      LimitOf(call.params, DefaultSearchLimit))
        /\ Len(result.value) <= LimitOf(call.params, DefaultSearchLimit)

\* The endpoint records of the operations of the document that carry the
\* tag, in document traversal order.
OperationsCarrying(tagName) ==
    LET hits == SelectSeq(Operations(spec),
                    LAMBDA o : /\ Has(o.operation, "tags")
                               /\ \E k \in 1..Len(o.operation.tags) :
                                      o.operation.tags[k] = tagName)
    IN  [i \in 1..Len(hits) |->
            EndpointResultOf(hits[i].path, ToUpperCase(hits[i].method), hits[i].operation)]

\* The tag names of the endpoint index that contain the substring, letter
\* case aside, in the order of the index.
MatchingTagNames(tag) ==
    SelectSeq(MapKeys(endpointIndex.tags),
              LAMBDA name : Includes(ToLowerCase(name), ToLowerCase(tag)))

\* The tag is defined in the tag list of the specification, and its (first)
\* definition has a description.
DefinedWithDescription(tagName) ==
    \E i \in 1..Len(spec.tags) :
        /\ Has(spec.tags[i], "name") /\ spec.tags[i].name = tagName
        /\ Has(spec.tags[i], "description")
        /\ \A j \in 1..(i - 1) : ~(Has(spec.tags[j], "name") /\ spec.tags[j].name = tagName)

\* The call asks for the descriptions.
WithDescription(params) == Has(params, "includeDescription") /\ params.includeDescription

OperationAt(path, method) ==
    SelectSeq(Operations(spec),
              LAMBDA o : o.path = path /\ ToUpperCase(o.method) = ToUpperCase(method))

\* One occurrence for each response of the operation that carries a schema,
\* named by the x-response-schema override or else by the schema's title.
OccurrencePerResponse(path, method) ==
    LET found == OperationAt(path, method)
    IN  IF found = <<>> \/ ~Has(found[1].operation, "responses") THEN <<>>
        ELSE LET op == found[1].operation
                 carrying == SelectSeq(op.responses, LAMBDA r : Has(r[2], "schema"))
             IN  [k \in 1..Len(carrying) |->
                    Merge(IF Truthy(op, XResponseSchema)
                          THEN [schemaName |-> op[XResponseSchema]]
                          ELSE IF Has(carrying[k][2].schema, "title")
                               THEN [schemaName |-> carrying[k][2].schema.title]
                               ELSE EmptyObject,
                          [path |-> path, method |-> ToUpperCase(method),
                           schema |-> carrying[k][2].schema])]

\* The occurrences that are the first of their schema name, names being
\* compared as the text a template literal renders (an absent name as
\* "undefined").
FirstOfEachName(occs) ==
    LET firsts == { k \in 1..Len(occs) :
                      \A j \in 1..(k - 1) :
                          TemplateString(occs[j], "schemaName")
                              # TemplateString(occs[k], "schemaName") }
        order == Ascending(firsts)
    IN  [i \in 1..Len(order) |-> occs[order[i]]]

\* A searchSchemas call answered by path and method has returned.
AnsweredByEndpoint ==
    /\ ReturnedFrom("searchSchemas")
    /\ ~Truthy(call.params, "schemaName") /\ ~Truthy(call.params, "property")
    /\ Truthy(call.params, "path") /\ Truthy(call.params, "method")

\* C18 (as the spec words it): with no schemaName and no property,
\* searchSchemas called with a path and a method returns one occurrence for
\* each response of that operation that carries a schema (path as given,
\* method upper-cased, schemaName the x-response-schema override or else the
\* title), and the empty list for no operation or no schema.
C18_OccurrencePerResponse ==
    AnsweredByEndpoint =>
        result.value = OccurrencePerResponse(call.params.path, call.params.method)

\* C18 (amended): ... it returns, in the order of the responses, the first
\* occurrence of each schema name among the responses that carry a schema:
\* responses whose occurrences have the same name (always, when the operation
\* has an x-response-schema override) give one occurrence, the names being
\* compared as texts with an absent name read as "undefined"; the empty
\* list for no operation or no schema.
C18_OccurrencePerSchemaName ==
    AnsweredByEndpoint =>
        /\ result.value =
               FirstOfEachName(OccurrencePerResponse(call.params.path, call.params.method))
        /\ (OperationAt(call.params.path, call.params.method) = <<>>
            \/ OccurrencePerResponse(call.params.path, call.params.method) = <<>>)
           <=> result.value = <<>>

\* The endpoint with two responses of one schema name gave one occurrence,
\* with the method upper-cased.
C18_Witness ==
    /\ AnsweredByEndpoint
    /\ call.params = [path |-> PathNod, method |-> MethodPost]
    /\ Len(OccurrencePerResponse(PathNod, MethodPost)) = 2
    /\ Len(result.value) = 1
    /\ result.value[1].method = ToUpperCase(MethodPost)
    /\ result.value[1].schemaName = NameNod

\* Every (path, method) pair of the loaded document as a list item.
AllListItems ==
    LET ops == Operations(spec)
    IN  [i \in 1..Len(ops) |->
            Merge([path |-> ops[i].path, method |-> ToUpperCase(ops[i].method)],
                  Pick(ops[i].operation, {"summary", "operationId", "tags"}))]

\* The number of items that come before the item, by path and then by method.
RankOf(item) ==
    Cardinality({ j \in 1..Len(AllListItems) :
                    CompareListItems(AllListItems[j], item) < 0 })

ItemAtRank(r) ==
    AllListItems[CHOOSE j \in 1..Len(AllListItems) : RankOf(AllListItems[j]) = r]

\* The items whose rank lies in [from, to), in the order of their ranks.
RankInterval(from, to) ==
    LET ranks == Ascending({ r \in 0..(Len(AllListItems) - 1) : from <= r /\ r < to })
    IN  [i \in 1..Len(ranks) |-> ItemAtRank(ranks[i])]

\* The pages of length L, from the page at the offset on, one after another.
RECURSIVE PagesFrom(_, _)
PagesFrom(offset, L) ==
    IF offset >= Len(AllListItems) THEN <<>>
    ELSE ListEndpoints(Loader, [limit |-> L, offset |-> offset]).value
         \o PagesFrom(offset + L, L)

ListOffsetOf(params) ==
    IF Has(params, "offset") THEN params.offset ELSE DefaultListOffset

\* C19: listEndpoints returns the slice [offset, offset + limit) (defaults 0
\* and 50) of all (path, method) pairs sorted by path and then by method, and
\* consecutive pages of a fixed length L > 0 yield every endpoint exactly once,
\* in sorted order.
C19_SliceOfSorted ==
    ReturnedFrom("listEndpoints") =>
        LET offset == ListOffsetOf(call.params)
            limit == LimitOf(call.params, DefaultListLimit)
        IN  /\ \A j, k \in 1..Len(AllListItems) :
                   j # k => CompareListItems(AllListItems[j], AllListItems[k]) # 0
            /\ result.value = RankInterval(offset, offset + limit)
            /\ (limit > 0 /\ offset = 0) =>
                   PagesFrom(0, limit) = RankInterval(0, Len(AllListItems))

\* The same, for the calls whose limit is not negative.
C19_SliceOfSortedFromZero ==
    (ReturnedFrom("listEndpoints") /\ LimitOf(call.params, DefaultListLimit) >= 0) =>
        C19_SliceOfSorted

\* The parameter is not among the arguments of the request, or is ''.
AbsentOrEmpty(key) ==
    key \notin DOMAIN request.arguments \/ request.arguments[key] = <<>>

\* The response is the error text 'Error: ' followed by the message.
RejectedWith(message) ==
    response = [content |-> <<[type |-> "text",
                               text |-> [prefix |-> "Error: ",
                                         message |-> [text |-> message]]]>>]

\* C20: a missing and an empty mandatory parameter are rejected alike, and not
\* answered by the resolver: search_by_tag with 'tag parameter is required',
\* fulltext_search with 'query parameter is required', get_endpoint_details
\* without path or without method with 'path and method parameters are
\* required'.
C20_MandatoryParameters ==
    /\ (request.name = "search_by_tag" /\ AbsentOrEmpty("tag")) =>
           /\ RejectedWith("tag parameter is required")
           /\ "tag" \in DOMAIN request.arguments =>
                  response # Respond(SearchByTag(Loader, request.arguments))
    /\ (request.name = "fulltext_search" /\ AbsentOrEmpty("query")) =>
           /\ RejectedWith("query parameter is required")
           /\ "query" \in DOMAIN request.arguments =>
                  response # Respond(FulltextSearch(Loader, request.arguments))
    /\ (request.name = "get_endpoint_details"
            /\ (AbsentOrEmpty("path") \/ AbsentOrEmpty("method"))) =>
           RejectedWith("path and method parameters are required")

\* An empty tag, which the resolver would answer with every tag, was rejected.
C20_Witness ==
    /\ request.name = "search_by_tag"
    /\ request.arguments = [tag |-> <<>>]
    /\ RejectedWith("tag parameter is required")
    /\ ~SearchByTag(Loader, request.arguments).threw
    /\ SearchByTag(Loader, request.arguments).value # <<>>

\* A get_endpoint_details request with a path and a method has been answered.
DetailsRequested ==
    /\ request.name = "get_endpoint_details"
    /\ ~AbsentOrEmpty("path") /\ ~AbsentOrEmpty("method")

OperationFields ==
    {"summary", "description", "operationId", "tags", "parameters", "responses"}

\* The response is the JSON text of the operation under the requested path
\* and the upper-cased method.
AnswersWith(path, method, operation) ==
    /\ Len(response.content) = 1
    /\ response.content[1].type = "text"
    /\ DOMAIN response.content[1].text = {"json"}
    /\ LET value == response.content[1].text.json
       IN  /\ DOMAIN value = {"path", "method"} \cup (OperationFields \cap DOMAIN operation)
           /\ value.path = path
           /\ value.method = ToUpperCase(method)
           /\ \A k \in OperationFields \cap DOMAIN operation : value[k] = operation[k]

\* The response is the error 'Endpoint not found: <METHOD> <path>'.
NotFoundFor(path, method) ==
    response = [content |-> <<[type |-> "text",
                               text |-> [prefix |-> "Error: ",
                                         message |-> [text |-> "Endpoint not found: ",
                                                      method |-> ToUpperCase(method),
                                                      path |-> path]]]>>]

\* C21: get_endpoint_details returns the operation of the endpoint index for
\* the exact path and the upper-cased method, and when there is none it fails
\* with 'Endpoint not found: <METHOD> <path>'; it never returns a result for a
\* path and method that are not in the index.
C21_DetailsOrNotFound ==
    DetailsRequested =>
        LET path == request.arguments.path
            method == request.arguments.method
            found == OperationAt(path, method)
        IN  /\ found # <<>> <=> LookupOperation(endpointIndex, path, ToUpperCase(method)) # <<>>
            /\ found # <<>> => AnswersWith(path, method, found[1].operation)
            /\ found = <<>> => NotFoundFor(path, method)

\* The lower-case method was answered with the operation, and the path in
\* another letter case was not found.
C21_Witness ==
    /\ DetailsRequested
    /\ request.arguments = [path |-> ArgFil, method |-> ArgGet]
    /\ OperationAt(ArgFil, ArgGet) # <<>>
    /\ AnswersWith(ArgFil, ArgGet, OperationAt(ArgFil, ArgGet)[1].operation)
    /\ OperationAt(ArgFilUpper, ArgGet) = <<>>

C21_WitnessNotFound ==
    /\ DetailsRequested
    /\ request.arguments = [path |-> ArgFilUpper, method |-> ArgGetUpper]
    /\ OperationAt(ArgFil, ArgGet) # <<>>
    /\ NotFoundFor(ArgFilUpper, ArgGetUpper)

SevenTools ==
    {"search_endpoints", "search_by_tag", "search_schemas", "fulltext_search",
     "get_endpoint_details", "list_tags", "list_endpoints"}

\* C22: the server advertises exactly seven tools (search_endpoints,
\* search_by_tag, search_schemas, fulltext_search, get_endpoint_details,
\* list_tags and list_endpoints), and a tool call naming any of the seven is
\* dispatched to its handler rather than answered with 'Unknown tool'.
C22_SevenToolsServed ==
    /\ request.name = "tools/list" =>
           /\ Len(response.tools) = Cardinality(SevenTools)
           /\ { response.tools[i] : i \in 1..Len(response.tools) } = SevenTools
    /\ request.name \in SevenTools =>
           response # [content |-> <<[type |-> "text",
                                      text |-> [prefix |-> "Error: ",
                                                message |-> [text |-> "Unknown tool: ",
                                                             name |-> request.name]]]>>]

\* The same, of the six tools the server does advertise.
C22_AdvertisedToolsServed ==
    /\ request.name = "tools/list" =>
           { response.tools[i] : i \in 1..Len(response.tools) } = SevenTools \ {"list_endpoints"}
    /\ request.name \in SevenTools \ {"list_endpoints"} =>
           response # ErrorResponse(UnknownTool(request.name))

\* A resolver was called on a loader whose load() resolved.
CalledAfterLoad == call # NoCall /\ loadState = "resolved"

\* C23: once a load has succeeded, for every document load() accepts and
\* every well-typed parameter value, searchEndpoints, searchByTag (with
\* includeDescription false or true), searchSchemas, fulltextSearch and
\* listEndpoints return a result and never throw.
C23_ResolversTotal == CalledAfterLoad => ~result.threw

\* The same, for the documents that have a top-level `tags` list, and for
\* every resolver but searchByTag with descriptions on the others.
C23_TotalWithTagDefinitions ==
    (CalledAfterLoad /\ (Has(spec, "tags") \/ call.fn # "searchByTag"
                         \/ ~WithDescription(call.params))) => ~result.threw

\* The positions, in traversal order, of the operations declaring the id.
Declaring(id) ==
    { i \in 1..Len(Operations(spec)) :
        /\ Truthy(Operations(spec)[i].operation, "operationId")
        /\ Operations(spec)[i].operation.operationId = id }

DeclaredIds ==
    { Operations(spec)[i].operation.operationId :
        i \in { j \in 1..Len(Operations(spec)) :
                  Truthy(Operations(spec)[j].operation, "operationId") } }

\* The last operation, in traversal order, that declares the id.
LastDeclaring(id) ==
    Operations(spec)[CHOOSE i \in Declaring(id) : \A j \in Declaring(id) : j <= i]

\* The results that are the endpoint of the operation.
ResultsAt(o) ==
    { k \in 1..Len(result.value) :
        /\ result.value[k].path = o.path
        /\ result.value[k].method = ToUpperCase(o.method) }

\* The ids the search matches: those containing the given string.
MatchedIds ==
    { id \in DeclaredIds :
        Includes(ToLowerCase(id), ToLowerCase(call.params.operationId)) }

\* C24: the operationIds index maps every operationId to the operation that
\* declares it last in traversal order, and a searchEndpoints call by
\* operationId returns exactly one endpoint for each id it matches, the last
\* one declaring it (when the limit does not cut the list short), and never an
\* earlier operation with that id.
C24_LastOperationIdWins ==
    /\ loadState = "resolved" =>
           /\ { endpointIndex.operationIds[k][1] :
                  k \in 1..Len(endpointIndex.operationIds) } = DeclaredIds
           /\ Len(endpointIndex.operationIds) = Cardinality(DeclaredIds)
           /\ \A k \in 1..Len(endpointIndex.operationIds) :
                  LET e == endpointIndex.operationIds[k]
                  IN  e[2] = [path |-> LastDeclaring(e[1]).path,
                              method |-> ToUpperCase(LastDeclaring(e[1]).method)]
    /\ (ReturnedFrom("searchEndpoints") /\ Truthy(call.params, "operationId")) =>
           /\ \A id \in MatchedIds :
                  /\ \A i \in Declaring(id) :
                         Operations(spec)[i] # LastDeclaring(id)
                             => ResultsAt(Operations(spec)[i]) = {}
                  /\ Cardinality(ResultsAt(LastDeclaring(id))) <= 1
                  /\ (~Has(call.params, "limit")
                          \/ call.params.limit >= Cardinality(MatchedIds))
                         => /\ Cardinality(ResultsAt(LastDeclaring(id))) = 1
                            /\ \A k \in ResultsAt(LastDeclaring(id)) :
                                   result.value[k].operationId = id
           /\ \A k \in 1..Len(result.value) :
                  \E id \in MatchedIds : k \in ResultsAt(LastDeclaring(id))

\* An operationId declared by two operations was searched and only the later
\* operation came back.
C24_Witness ==
    /\ ReturnedFrom("searchEndpoints") /\ Truthy(call.params, "operationId")
    /\ \E id \in MatchedIds :
           /\ Cardinality(Declaring(id)) = 2
           /\ Cardinality(ResultsAt(LastDeclaring(id))) = 1
           /\ Len(result.value) = 1

\* The keys of an insertion-ordered map, as a set.
KeySet(map) == { map[k][1] : k \in 1..Len(map) }

NoRepeats(seq) == \A i, j \in 1..Len(seq) : i # j => seq[i] # seq[j]

\* C25: in every fulltext index built by load(), each token of `words` maps
\* to a non-empty set of document identifiers, every identifier of the set is
\* a key of `documents`, so 1 <= df <= number of documents; and `documents`
\* has exactly one entry per operation of the specification, keyed
\* METHOD:path.
C25_FulltextIndexWellFormed ==
    ~IsNull(fulltextIndex) =>
        LET words == fulltextIndex.words
            documents == fulltextIndex.documents
            ops == Operations(spec)
        IN  /\ NoRepeats([k \in 1..Len(words) |-> words[k][1]])
            /\ \A k \in 1..Len(words) :
                   /\ words[k][2] # <<>>
                   /\ NoRepeats(words[k][2])
                   /\ \A d \in 1..Len(words[k][2]) : words[k][2][d] \in KeySet(documents)
                   /\ 1 <= Len(words[k][2]) /\ Len(words[k][2]) <= Len(documents)
            /\ NoRepeats([k \in 1..Len(documents) |-> documents[k][1]])
            /\ Len(documents) = Len(ops)
            /\ KeySet(documents) =
                   { ToUpperCase(ops[i].method) \o <<":">> \o ops[i].path : i \in 1..Len(ops) }
            /\ \A k \in 1..Len(documents) :
                   documents[k][1] = documents[k][2].method \o <<":">> \o documents[k][2].path

\* An index of several operations with a token of one document and a token
\* of more than one.
C25_Witness ==
    /\ ~IsNull(fulltextIndex)
    /\ Len(fulltextIndex.documents) >= 3
    /\ \E k \in 1..Len(fulltextIndex.words) : Len(fulltextIndex.words[k][2]) = 1
    /\ \E k \in 1..Len(fulltextIndex.words) :
           Len(fulltextIndex.words[k][2]) >= 2

\* C26: every result returned by fulltextSearch has a strictly positive
\* score: a document that is returned because it contains a query token gets
\* a score greater than 0.
C26_ScoresPositive ==
    ReturnedFrom("fulltextSearch") =>
        \A i \in 1..Len(result.value) : ScorePositive(result.value[i].score)

\* The query tokens the document of the result holds.
TokensHeldBy(r) ==
    LET tokens == Tokenize(call.params.query)
    IN  { k \in 1..Len(tokens) :
            \E d \in 1..Len(DocIdsOf(fulltextIndex, tokens[k])) :
                DocIdsOf(fulltextIndex, tokens[k])[d] = r.method \o <<":">> \o r.path }

\* What holds instead: no score is negative, and a score is positive exactly
\* when the document holds a query token that some other document lacks.
C26_ScoresNotNegative ==
    ReturnedFrom("fulltextSearch") =>
        \A i \in 1..Len(result.value) :
            LET r == result.value[i]
                tokens == Tokenize(call.params.query)
            IN  /\ IsFiniteScore(r.score) /\ r.score.num >= r.score.den
                /\ ScorePositive(r.score) <=>
                       \E k \in TokensHeldBy(r) :
                           Len(DocIdsOf(fulltextIndex, tokens[k]))
                               < Len(fulltextIndex.documents)

\* The texts of an operation that are indexed: its summary, its description,
\* and of its parameters the descriptions and the names.
IndexedTexts(operation) ==
    (IF Truthy(operation, "summary") THEN {operation.summary} ELSE {})
    \cup (IF Truthy(operation, "description") THEN {operation.description} ELSE {})
    \cup (IF Has(operation, "parameters")
          THEN UNION { (IF Truthy(operation.parameters[k], "description")
                        THEN {operation.parameters[k].description} ELSE {})
                       \cup {operation.parameters[k].name} :
                       k \in 1..Len(operation.parameters) }
          ELSE {})

\* The operation's content contains the token as a whole token.
Holds(operation, token) ==
    \E text \in IndexedTexts(operation) :
        \E k \in 1..Len(LongRuns(text)) : LongRuns(text)[k] = token

\* The number of operations of the document whose content holds the token.
HoldersOf(token) ==
    Cardinality({ i \in 1..Len(Operations(spec)) :
                    Holds(Operations(spec)[i].operation, token) })

\* The positions of the query tokens the operation holds.
HeldTokens(operation, tokens) ==
    { k \in 1..Len(tokens) : Holds(operation, tokens[k]) }

\* The products of the document counts and of the holder counts over the
\* positions: the sum of the logarithms is the logarithm of their quotient.
RECURSIVE ProductOfCounts(_, _)
ProductOfCounts(positions, tokens) ==
    IF positions = {} THEN <<1, 1>>
    ELSE LET k == CHOOSE x \in positions : TRUE
             rest == ProductOfCounts(positions \ {k}, tokens)
         IN  <<rest[1] * Len(Operations(spec)), rest[2] * HoldersOf(tokens[k])>>

\* The field is among the operation's and its lower-cased text contains one
\* of the held query tokens.
FieldContainsHeld(operation, field, tokens) ==
    /\ Has(operation, field)
    /\ \E k \in HeldTokens(operation, tokens) :
           Includes(ToLowerCase(operation[field]), tokens[k])

\* A fulltextSearch call that leaves the limit at its default has returned:
\* with fewer operations than the default, nothing is cut off.
ReturnedUntruncated ==
    /\ ReturnedFrom("fulltextSearch")
    /\ ~Has(call.params, "limit")
    /\ Len(Operations(spec)) <= DefaultSearchLimit

\* The operation the result is of.
OperationOf(r) ==
    LET ops == Operations(spec)
    IN  ops[CHOOSE i \in 1..Len(ops) :
                ops[i].path = r.path /\ ToUpperCase(ops[i].method) = r.method].operation

\* The scored documents are the operations holding a query token, each scored
\* once, by the held tokens only, over the count of all query tokens; the
\* matched fields are those containing a held token.
ScoredAreHolders ==
    LET tokens == LongRuns(call.params.query)
        ops == Operations(spec)
        r == result.value
    IN  /\ { <<r[i].method, r[i].path>> : i \in 1..Len(r) }
               = { <<ToUpperCase(ops[i].method), ops[i].path>> :
                     i \in { j \in 1..Len(ops) : HeldTokens(ops[j].operation, tokens) # {} } }
        /\ \A i, j \in 1..Len(r) :
               i # j => <<r[i].method, r[i].path>> # <<r[j].method, r[j].path>>
        /\ \A i \in 1..Len(r) :
               LET op == OperationOf(r[i])
                   expected == ProductOfCounts(HeldTokens(op, tokens), tokens)
               IN  /\ r[i].score.tokens = Len(tokens)
                   /\ r[i].score.num * expected[2] = expected[1] * r[i].score.den
                   /\ NoRepeats(r[i].matchedFields)
                   /\ \A field \in {"summary", "description"} :
                          (\E k \in 1..Len(r[i].matchedFields) : r[i].matchedFields[k] = field)
                              <=> FieldContainsHeld(op, field, tokens)
                   /\ \A k \in 1..Len(r[i].matchedFields) :
                          r[i].matchedFields[k] \in {"summary", "description"}

\* C27 (as the spec words it): before truncation, the scored documents are
\* exactly the operations whose indexed content contains a query token as a
\* whole token; a token found in no document adds no result and no score but
\* counts in the divisor; matchedFields is a duplicate-free sublist of
\* [summary, description] holding a field exactly when its lower-cased text
\* contains a matched query token, so it is empty for a document matched only
\* through a parameter.
C27_MatchedFieldsSublist ==
    ReturnedUntruncated =>
        /\ ScoredAreHolders
        /\ \A i \in 1..Len(result.value) :
               result.value[i].matchedFields
                   \in {<<>>, <<"summary">>, <<"description">>, <<"summary", "description">>}

\* The position of the first held query token the field contains.
FirstMatch(operation, field, tokens) ==
    CHOOSE k \in HeldTokens(operation, tokens) :
        /\ Includes(ToLowerCase(operation[field]), tokens[k])
        /\ \A j \in HeldTokens(operation, tokens) :
               Includes(ToLowerCase(operation[field]), tokens[j]) => k <= j

\* C27 (amended): ... matchedFields is a duplicate-free list of the fields
\* among summary and description whose lower-cased text contains a matched
\* query token, in the order in which the query tokens first matched them
\* (summary before description for one token), so description comes before
\* summary when an earlier token matches the description only.
C27_MatchedFieldsInMatchOrder ==
    ReturnedUntruncated =>
        /\ ScoredAreHolders
        /\ \A i \in 1..Len(result.value) :
               LET op == OperationOf(result.value[i])
                   tokens == LongRuns(call.params.query)
                   mf == result.value[i].matchedFields
               IN  mf = <<"description", "summary">>
                       <=> /\ FieldContainsHeld(op, "summary", tokens)
                           /\ FieldContainsHeld(op, "description", tokens)
                           /\ FirstMatch(op, "description", tokens)
                                  < FirstMatch(op, "summary", tokens)

\* A query with a token no document holds and a token two hold; a document
\* matched through its parameter only, with no matched field; and a document
\* whose description matched before its summary.
C27_Witness ==
    /\ ReturnedUntruncated
    /\ \E i \in 1..Len(result.value) :
           result.value[i].matchedFields = <<"description", "summary">>

C27_WitnessAbsentToken ==
    /\ ReturnedUntruncated
    /\ call.params.query = ArgFilZzz
    /\ Len(result.value) >= 2
    /\ \A i \in 1..Len(result.value) : result.value[i].score.tokens = 2

C27_WitnessParameterOnly ==
    /\ ReturnedUntruncated
    /\ call.params.query = ArgPage
    /\ Len(result.value) = 1
    /\ result.value[1].matchedFields = <<>>

\* The indexes the loader holds are those of the document getSpec() returns
\* (none, when it has no document).
IndexesOfSpec ==
    IF IsNull(spec)
    THEN IsNull(endpointIndex) /\ IsNull(schemaIndex) /\ IsNull(fulltextIndex)
    ELSE /\ ~BuildEndpointIndexThrows(spec)
         /\ ~BuildSchemaIndexThrows(spec)
         /\ ~BuildFulltextIndexThrows(spec)
         /\ endpointIndex = BuildEndpointIndex(spec)
         /\ schemaIndex = BuildSchemaIndex(spec)
         /\ fulltextIndex = BuildFulltextIndex(spec)

\* A load() settled in this step by rejecting.
LoadRejects == loadsInFlight' = loadsInFlight - 1 /\ loadState' = "rejected"

\* C28: after any sequence or interleaving of load() calls on one loader,
\* overlapping calls and rejecting calls included, the three indexes the
\* loader holds are those built from the document getSpec() returns, so a
\* resolver never answers from the indexes of another document, and a load()
\* that rejects leaves the spec and the indexes as they were.
C28_IndexesFollowSpec ==
    /\ [](IndexesOfSpec)
    /\ [](ReturnedFrom("searchEndpoints") =>
              ~IsNull(spec) /\ endpointIndex = BuildEndpointIndex(spec))
    /\ [][LoadRejects => UNCHANGED loaderVars]_vars

\* What holds instead: right after a load() that resolved the indexes are
\* those of the document, and a load() rejected by readFile or by JSON.parse
\* changes nothing.
C28_IndexesFollowResolvedLoad ==
    /\ [](loadState = "resolved" => IndexesOfSpec)
    /\ [][(LoadRejects /\ loadError' \in {"ENOENT", "SyntaxError"})
              => UNCHANGED loaderVars]_vars

\* The (path, method) pairs of the endpoint lists of all bundles.
PairsOfBundles(bundles) ==
    UNION { { <<bundles[i].endpoints[k].path, bundles[i].endpoints[k].method>> :
                k \in 1..Len(bundles[i].endpoints) } : i \in 1..Len(bundles) }

PairsOfEndpoints(endpoints) ==
    { <<endpoints[k].path, endpoints[k].method>> : k \in 1..Len(endpoints) }

\* searchEndpoints with the tag, no other filter, and the number of
\* endpoints as limit.
EndpointsTagged(tag) ==
    SearchEndpoints(Loader, [tag |-> tag, limit |-> Len(Operations(spec))])

\* C29: for every non-empty tag substring t, the (path, method) pairs in the
\* endpoint lists of the bundles searchByTag(t) returns are the (path, method)
\* pairs searchEndpoints returns with tag t, no other filter and a limit at
\* least the number of endpoints.
C29_TagLookupsAgree ==
    (ReturnedFrom("searchByTag") /\ call.params.tag # <<>>) =>
        /\ ~EndpointsTagged(call.params.tag).threw
        /\ PairsOfBundles(result.value)
               = PairsOfEndpoints(EndpointsTagged(call.params.tag).value)

\* The tag matched some endpoints of the document, one of them under the
\* second of its tags, and not the others.
C29_Witness ==
    /\ ReturnedFrom("searchByTag") /\ call.params.tag # <<>>
    /\ Cardinality(PairsOfBundles(result.value)) >= 2
    /\ Cardinality(PairsOfBundles(result.value)) < Len(Operations(spec))
    /\ \E i \in 1..Len(result.value) :
       \E k \in 1..Len(result.value[i].endpoints) :
           /\ Len(result.value[i].endpoints[k].tags) = 2
           /\ result.value[i].endpoints[k].tags[2] = result.value[i].tagName

\* A tool call has been answered.
ToolCallAnswered == request.name \notin {"none", "tools/list"}

\* The answer is a response with a single text content.
NormalResponse ==
    /\ DOMAIN response = {"content"}
    /\ Len(response.content) = 1
    /\ response.content[1].type = "text"

\* The text is 'Error: ' followed by the message.
ErrorText(message) ==
    response.content[1].text = [prefix |-> "Error: ", message |-> message]

\* The six tools of the switch, and the arguments each requires.
KnownTools ==
    {"search_endpoints", "search_by_tag", "search_schemas", "fulltext_search",
     "get_endpoint_details", "list_tags"}

RequiredParameters(name) ==
    CASE name = "search_by_tag" -> {"tag"}
      [] name = "fulltext_search" -> {"query"}
      [] name = "get_endpoint_details" -> {"path", "method"}
      [] OTHER -> {}

\* load() has not completed: the loader holds nothing.
NotInitialized == loadState \in {"none", "pending"}

\* A request is answered in this step; the next one is handled when the
\* transport is still connected and the process has not exited.
ToolCallStep == request' # request \/ response' # response

\* The answer to the request is the one the loader's state calls for (the
\* state in which the request was answered: answering does not change it).
AnsweredAsRequired ==
    /\ NormalResponse
    /\ request.name \notin KnownTools =>
           ErrorText([text |-> "Unknown tool: ", name |-> request.name])
    /\ (request.name \in KnownTools
            /\ \E key \in RequiredParameters(request.name) : AbsentOrEmpty(key)) =>
           ErrorText([text |->
               CASE request.name = "search_by_tag" -> "tag parameter is required"
                 [] request.name = "fulltext_search" -> "query parameter is required"
                 [] OTHER -> "path and method parameters are required"])
    /\ (DetailsRequested /\ loadState = "resolved"
            /\ OperationAt(request.arguments.path, request.arguments.method) = <<>>) =>
           NotFoundFor(request.arguments.path, request.arguments.method)
    /\ (NotInitialized /\ request.name \in KnownTools
            /\ \A key \in RequiredParameters(request.name) : ~AbsentOrEmpty(key)) =>
           \/ ErrorText([text |-> "Swagger spec not loaded. Call load() first."])
           \/ ErrorText([text |-> "Indexes not built. Call load() first."])

\* C30: the tool call request handler never propagates an exception: for an
\* unknown tool name, a missing required parameter, an endpoint that is not
\* found, or a call made before the loader is initialized, it returns a
\* normal response whose single text content is 'Error: ' followed by the
\* error message, and the server keeps handling later requests with the
\* loader state unchanged.
C30_ErrorsAreResponses ==
    [][(ToolCallStep /\ ToolCallAnswered') =>
           /\ AnsweredAsRequired'
           /\ UNCHANGED <<loaderVars, loadState, loadError, loadsInFlight>>
           /\ transportStarted' /\ exitCode' = -1]_vars

\* A call before initialize() completed was answered with the error text.
C30_Witness ==
    /\ ToolCallAnswered
    /\ NotInitialized
    /\ request.name = "search_endpoints"
    /\ NormalResponse
    /\ ErrorText([text |-> "Indexes not built. Call load() first."])

====
